---- MODULE Spec2Model ----
(***************************************************************************)
(* Test-output classification engine of mini-swe-agent's pipeline:         *)
(* the per-framework log parsers (src/log_parser/parsers) and the parser   *)
(* selection of src/verify_testing.py.                                     *)
(*                                                                         *)
(* A log is a sequence of lines.  A line is a record naming the shape of   *)
(* its text (k), a leading bracketed prefix (pre), a marker or literal     *)
(* (sym), a test identifier (id) and its "<count> <word>" items (items).   *)
(* Each regular expression of the source is an operator over such lines.   *)
(* A test identifier is <<stem, numbered, n>>: the text stem followed by   *)
(* the decimal n when numbered, the stem alone otherwise.                  *)
(***************************************************************************)
EXTENDS Integers, Sequences, FiniteSets, TLC

\* ------------------------------------------------------------- bounds
\* lines of a log given to the parser selection
MaxLogLen == 2
\* lines of a log given to one parser on its own
MaxStrategyLogLen == 2
\* lines of a log of the JavaScript scenarios
MaxScenarioLen == 3
\* the largest count a summary line declares
MaxCount == 2
\* per-test lines before a summary line
MaxTests == 2
\* runs of one input the observer counts
MaxRuns == 2
MaxReportTests == 2
MaxNames == 3

\* ------------------------------------------------ status vocabulary
PASSED == "PASSED"
FAILED == "FAILED"
SKIPPED == "SKIPPED"
TestStatus == {PASSED, FAILED, SKIPPED}

\* ---------------------------------------------------- dictionaries
EmptyMap == [x \in {} |-> PASSED]

PutKeepFirst(m, key, v) ==
    [x \in DOMAIN m \cup {key} |-> IF x \in DOMAIN m THEN m[x] ELSE v]
Put(m, key, v) == [x \in DOMAIN m \cup {key} |-> IF x = key THEN v ELSE m[x]]

\* dict.update: the entries of b replace those of a
Update(a, b) == [x \in DOMAIN a \cup DOMAIN b |-> IF x \in DOMAIN b THEN b[x] ELSE a[x]]

CountStatus(m, s) == Cardinality({x \in DOMAIN m : m[x] = s})

Bare(stem) == <<stem, FALSE, 0>>
Numbered(stem, n) == <<stem, TRUE, n>>

\* for i in range(count): m[f"{stem}{first + i}"] = status
PutRange(m, stem, first, count, status) ==
    Update(m, [x \in {Numbered(stem, first + i) : i \in 0..(count - 1)} |-> status])

\* for i in range(n): m[f"{stem}{i+1}"] = status
PutNumbered(m, stem, n, status) == PutRange(m, stem, 1, n, status)

\* ------------------------------------------------------------ lines
NoId == Bare("")

Line(pre, k, sym, id, items) ==
    [pre |-> pre, k |-> k, sym |-> sym, id |-> id, items |-> items]

\* "<sym> <name>", sym one of the glyphs
CheckLine(sym, id) == Line("", "check", sym, id, <<>>)
\* "<sym> <name> (5 ms)": the duration jest prints after the name
TimedCheckLine(sym, id) == Line("", "check", sym, id, <<<<5, "ms">>>>)
\* "<sym> Tests: n passed": a test whose name holds the text of a summary
SummaryNamedCheckLine(sym, n) ==
    Line("", "check", sym, Numbered("Tests: passed ", n), <<<<n, "passed">>>>)
\* "<WORD> <name>", WORD one of PASS, FAIL, SKIP
WordLine(sym, id) == Line("", "word", sym, id, <<>>)
\* "Tests: n1 w1, n2 w2, ..."
TestsLine(items) == Line("", "tests", "", NoId, items)
\* a line holding the literal text sym and nothing else
TextLine(sym) == Line("", "text", sym, NoId, <<>>)

\* a parser's outcome: the dictionary it returns, or an exception
Returned(m) == [raised |-> FALSE, map |-> m]
Raised == [raised |-> TRUE, map |-> EmptyMap]

\* a regex group that did not take part in the match
NoGroup == -1

\* the text of a \d+ group of more than 4300 digits, which int() refuses
Huge == -2

\* ------------------------------------------------- shared helpers
\* the first of the indices hits of the matching lines of a log, or 0
FirstIndex(hits) ==
    IF hits = {} THEN 0 ELSE CHOOSE i \in hits : \A j \in hits : i <= j

\* the last of the indices hits of the matching lines of a log, or 0
LastIndex(hits) ==
    IF hits = {} THEN 0 ELSE CHOOSE i \in hits : \A j \in hits : j <= i

\* int(s) of the text of a group: a TypeError when the group is None, a
\* ValueError when the text is longer than the interpreter's limit of digits
PyInt(g) == [err |-> g \in {NoGroup, Huge}, v |-> IF g \in {NoGroup, Huge} THEN 0 ELSE g]

\* "int(match.group(i)) if match.group(i) else 0"
GroupCount(g) == IF g # NoGroup THEN PyInt(g) ELSE [err |-> FALSE, v |-> 0]

\* r"Tests:\s+(\d+)\s+passed(?:,\s+(\d+)\s+failed)?(?:,\s+(\d+)\s+skipped)?(?:,\s+(\d+)\s+total)?"
\* searched in a line whose text has no escape sequence between its tokens;
\* re.search finds it inside the name of a per-test line as well
SummaryLineMatch(l) ==
    /\ (l.k = "tests" /\ l.sym = "") \/ l.k = "check"
    /\ Len(l.items) >= 1
    /\ l.items[1][2] = "passed"

\* the groups (1), (2), (3) of a match: each optional group is taken when the
\* next item of the line is the one it names
SummaryLineGroupsSwapped(l) ==
    LET it == l.items
        hasF == Len(it) >= 2 /\ it[2][2] = "failed"
        j == IF hasF THEN 3 ELSE 2
        hasS == Len(it) >= j /\ it[j][2] = "skipped"
    IN <<it[1][1],
         IF hasS THEN it[j][1] ELSE NoGroup,
         IF hasF THEN it[2][1] ELSE NoGroup>>
SummaryLineGroups(l) ==
    LET it == l.items
        hasF == Len(it) >= 2 /\ it[2][2] = "failed"
        j == IF hasF THEN 3 ELSE 2
        hasS == Len(it) >= j /\ it[j][2] = "skipped"
    IN <<it[1][1],
         IF hasF THEN it[2][1] ELSE NoGroup,
         IF hasS THEN it[j][1] ELSE NoGroup>>

\* ------------------------------------------------ parsers/jest.py
\* r"^\s*(TICK|CROSS|CIRCLE)\s(.+?)(?:\s\((\d+\s*m?s)\))?$" on line.strip()
JestCheckMatch(l) == l.k = "check" /\ l.pre = "" /\ l.sym \in {"TICK", "CROSS", "CIRCLE"}

JestCheckStatusNoSkip(sym) == IF sym = "CROSS" THEN FAILED ELSE PASSED
JestCheckStatus(sym) ==
    IF sym = "TICK" THEN PASSED ELSE IF sym = "CROSS" THEN FAILED ELSE SKIPPED

RECURSIVE JestCheckmarks(_, _)
JestCheckmarks(log, m) ==
    IF log = <<>> THEN m
    ELSE LET l == Head(log)
         IN JestCheckmarks(Tail(log),
                IF JestCheckMatch(l) THEN Put(m, l.id, JestCheckStatus(l.sym)) ELSE m)

\* r"^\s*(PASS|FAIL|SKIP)\s+(.+?)(?:\s\((\d+\.\d+\s*s?)\))?$" on line.strip()
JestWordMatch(l) == l.k = "word" /\ l.pre = "" /\ l.sym \in {"PASS", "FAIL", "SKIP"}

JestWordStatus(sym) ==
    IF sym = "PASS" THEN PASSED ELSE IF sym = "FAIL" THEN FAILED ELSE SKIPPED

RECURSIVE JestWords(_, _)
JestWords(log, m) ==
    IF log = <<>> THEN m
    ELSE LET l == Head(log)
         IN JestWords(Tail(log),
                IF JestWordMatch(l) THEN Put(m, l.id, JestWordStatus(l.sym)) ELSE m)

\* the supplement by the first summary line
JestSupplementShort(m, missing, stem, status) ==
    IF missing > 1 THEN PutNumbered(m, stem, missing - 1, status) ELSE m
JestSupplement(m, missing, stem, status) ==
    IF missing > 0 THEN PutNumbered(m, stem, missing, status) ELSE m

JestSummary(m, l) ==
    LET g == SummaryLineGroups(l)
        passed_count == GroupCount(g[1])
        failed_count == GroupCount(g[2])
        skipped_count == GroupCount(g[3])
    IN IF passed_count.err \/ failed_count.err \/ skipped_count.err THEN Raised
       ELSE LET missing_passed == passed_count.v - CountStatus(m, PASSED)
                missing_failed == failed_count.v - CountStatus(m, FAILED)
                missing_skipped == skipped_count.v - CountStatus(m, SKIPPED)
                a == JestSupplement(m, missing_passed, "jest_test_", PASSED)
                b == JestSupplement(a, missing_failed, "jest_failed_test_", FAILED)
                c == JestSupplement(b, missing_skipped, "jest_skipped_test_", SKIPPED)
            IN Returned(c)

parse_log_jest(log) ==
    LET checks == JestCheckmarks(log, EmptyMap)
        test_status_map == IF DOMAIN checks = {} THEN JestWords(log, EmptyMap) ELSE checks
        s == FirstIndex({i \in 1..Len(log) : SummaryLineMatch(log[i])})
    IN IF s = 0 THEN Returned(test_status_map) ELSE JestSummary(test_status_map, log[s])

\* ----------------------------------------------- parsers/twist.py
\* the same summary pattern, searched after the escape sequences are removed
TwistClean(l) == IF l.k = "tests" THEN [l EXCEPT !.sym = ""] ELSE l

TwistSummaryMatch(l) == SummaryLineMatch(TwistClean(l))

parse_log_twist(log) ==
    LET s == LastIndex({i \in 1..Len(log) : TwistSummaryMatch(log[i])})
        g == IF s = 0 THEN <<NoGroup, NoGroup, NoGroup>>
             ELSE SummaryLineGroups(TwistClean(log[s]))
        passed_count == IF s = 0 THEN PyInt(0) ELSE GroupCount(g[1])
        failed_count == IF s = 0 THEN PyInt(0) ELSE GroupCount(g[2])
        skipped_count == IF s = 0 THEN PyInt(0) ELSE GroupCount(g[3])
    IN IF passed_count.err \/ failed_count.err \/ skipped_count.err THEN Raised
       ELSE LET a == IF passed_count.v > 0
                     THEN PutNumbered(EmptyMap, "twist_passed_", passed_count.v, PASSED)
                     ELSE EmptyMap
                b == IF failed_count.v > 0
                     THEN PutNumbered(a, "twist_failed_", failed_count.v, FAILED) ELSE a
                c == IF skipped_count.v > 0
                     THEN PutNumbered(b, "twist_skipped_", skipped_count.v, SKIPPED) ELSE b
            IN Returned(c)

\* ------------------------------------------- substring tests on text
\* str.lower() of the literal texts of the model
Lower(t) ==
    IF t = "Stylelint" THEN "stylelint"
    ELSE IF t = "ERROR" THEN "error"
    ELSE IF t = "Jest" THEN "jest"
    ELSE IF t = "JavaScript" THEN "javascript"
    ELSE t

\* "tok in line": the literal occurs in the text of the line
Has(l, tok) ==
    \/ l.k = "text" /\ (l.sym = tok \/ (tok = "!!!" /\ l.sym = "!!!FAILURES!!!"))
    \/ l.k \in {"check", "word"} /\ l.id[1] = tok

\* "tok in line.lower()", tok a lower-case literal
HasLower(l, tok) ==
    \/ l.k = "text" /\ Lower(l.sym) = tok
    \/ l.k \in {"check", "word"} /\ Lower(l.id[1]) = tok
    \/ tok = "error" /\ l.k \in {"eslint", "testsrun"}
    \/ tok = "failed" /\ l.k = "tests" /\ \E i \in 1..Len(l.items) : l.items[i][2] = "failed"
    \/ tok = "failed" /\ l.k \in {"gradle", "jmethod"} /\ l.sym = "FAILED"

LogHas(log, tok) == \E i \in 1..Len(log) : Has(log[i], tok)
LogHasLower(log, tok) == \E i \in 1..Len(log) : HasLower(log[i], tok)

\* ---------------------------------------------- parsers/eslint.py
\* "HEAVYX N problems (E errors, W warnings)"
EslintLine(n, e) ==
    Line("", "eslint", "", NoId, <<<<n, "problems">>, <<e, "errors">>, <<0, "warnings">>>>)

\* r"HEAVYX (\d+) problems? \((\d+) errors?"
EslintMatch(l) ==
    /\ l.k = "eslint"
    /\ Len(l.items) >= 2
    /\ l.items[1][2] = "problems"
    /\ l.items[2][2] = "errors"

\* 'FAILED' if error_count > 0 else 'PASSED'
EslintStatusPassed(error_count) == PASSED
EslintStatus(error_count) == IF error_count > 0 THEN FAILED ELSE PASSED

parse_log_eslint(log) ==
    LET s == FirstIndex({i \in 1..Len(log) : EslintMatch(log[i])})
    IN IF s # 0
       THEN LET error_count == PyInt(log[s].items[2][1])
            IN IF error_count.err THEN Raised
               ELSE Returned(Put(EmptyMap, Bare("eslint_check"), EslintStatus(error_count.v)))
       ELSE IF LogHas(log, "npm info ok") \/ LogHas(log, "exit 0")
            THEN Returned(Put(EmptyMap, Bare("eslint_check"), PASSED))
            ELSE Returned(EmptyMap)

\* ------------------------------------------- parsers/stylelint.py
parse_log_stylelint(log) ==
    IF LogHasLower(log, "stylelint")
    THEN IF LogHasLower(log, "error") \/ LogHasLower(log, "failed")
         THEN Returned(Put(EmptyMap, Bare("stylelint"), FAILED))
         ELSE Returned(Put(EmptyMap, Bare("stylelint"), PASSED))
    ELSE Returned(EmptyMap)

\* ---------------------------------------------- parsers/cspell.py
\* "CSpell: Files checked: N, Issues found: M"
CspellLine(n, m) ==
    Line("", "cspell", "", NoId, <<<<n, "checked">>, <<m, "issues">>>>)

CspellMatch(l) == l.k = "cspell" /\ Len(l.items) >= 2

parse_log_cspell(log) ==
    LET a == IF LogHas(log, "All matched files use Prettier code style!")
             THEN Put(EmptyMap, Bare("prettier_format"), PASSED)
             ELSE IF LogHas(log, "Checking formatting...") /\ LogHas(log, "npm run suggest:format")
                  THEN Put(EmptyMap, Bare("prettier_format"), FAILED)
                  ELSE EmptyMap
        b == IF LogHas(log, "test:build") THEN Put(a, Bare("spec_build"), PASSED) ELSE a
        s == FirstIndex({i \in 1..Len(log) : CspellMatch(log[i])})
    IN IF s = 0 THEN Returned(b)
       ELSE LET issues == PyInt(log[s].items[2][1])
            IN IF issues.err THEN Raised
               ELSE Returned(Put(b, Bare("cspell_spelling"),
                                 IF issues.v = 0 THEN PASSED ELSE FAILED))

\* ----------------------------------- parsers/maven.py, parsers/junit.py
\* "Running <class>"
RunningLine(pre, cls) == Line(pre, "running", "", Bare(cls), <<>>)
\* "Tests run: N, Failures: F, Errors: E, Skipped: S", then " -- in <class>" when
\* inCls is not ""
TestsRunLine(pre, n, f, e, s, inCls) ==
    Line(pre, "testsrun", IF inCls = "" THEN "" ELSE "in", Bare(inCls),
         <<<<n, "run">>, <<f, "failures">>, <<e, "errors">>, <<s, "skipped">>>>)
\* "<method>(<class>)  Time elapsed: ...", then " <<< FAILURE!" or " <<< ERROR!"
MethodLine(method, mark) == Line("", "method", mark, Bare(method), <<>>)
\* "<method>(<class>): <STATUS>"
JMethodLine(cls, method, status) == Line("", "jmethod", status, Bare(cls), <<<<0, method>>>>)
\* "<class> > <method> <STATUS>"
GradleLine(cls, method, status) == Line("", "gradle", status, Bare(cls), <<<<0, method>>>>)

\* re.sub(r"^\[(INFO|DEBUG|WARNING|ERROR)\]\s+", "", line)
MavenClean(l) ==
    IF l.pre \in {"[INFO]", "[DEBUG]", "[WARNING]", "[ERROR]"} THEN [l EXCEPT !.pre = ""] ELSE l

\* re.sub(r"^\[[^\]]+\]\s+", "", line)
JunitClean(l) == IF l.pre # "" THEN [l EXCEPT !.pre = ""] ELSE l

RunningMatch(l) == l.k = "running" /\ l.pre = ""
TestsRunMatch(l) == l.k = "testsrun" /\ l.pre = "" /\ Len(l.items) = 4

\* the entries "<class>.test_<i>" made from one class summary
ClassEntries(m, cls, tests_run, failures, errors, skipped) ==
    LET stem == cls \o ".test_"
    IN IF failures > 0 \/ errors > 0
       THEN LET a == PutRange(m, stem, 1, failures + errors, FAILED)
                b == PutRange(a, stem, failures + errors + 1,
                              tests_run - failures - errors - skipped, PASSED)
            IN PutRange(b, stem, tests_run - skipped + 1, skipped, SKIPPED)
       ELSE LET a == PutRange(m, stem, 1, tests_run - skipped, PASSED)
            IN PutRange(a, stem, tests_run - skipped + 1, skipped, SKIPPED)

\* r"^(\w+)\([^)]+\)\s+Time elapsed:.*?(?:<<<\s+(FAILURE|ERROR)!)?$"
MavenMethodMatch(l) == l.k = "method" /\ l.pre = ""

\* the loop over the lines: st is <<test_status_map, current_class>>, "" for None
RECURSIVE MavenLines(_, _)
MavenLines(log, st) ==
    IF log = <<>> THEN st
    ELSE LET l == MavenClean(Head(log))
             m == st[1]
             current_class == st[2]
             it == l.items
             test_class == IF l.sym = "in" THEN l.id[1] ELSE current_class
         IN MavenLines(Tail(log),
              IF RunningMatch(l) THEN <<m, l.id[1]>>
              ELSE IF TestsRunMatch(l)
                   THEN IF test_class # ""
                        THEN <<ClassEntries(m, test_class, it[1][1], it[2][1], it[3][1], it[4][1]),
                               current_class>>
                        ELSE st
                   ELSE IF MavenMethodMatch(l)
                        THEN <<Put(m, IF current_class # ""
                                      THEN Bare(current_class \o "." \o l.id[1])
                                      ELSE l.id,
                                   IF l.sym # "" THEN FAILED ELSE PASSED),
                               current_class>>
                        ELSE st)

\* names holding "<word>.<word>"
DottedNames == {"pkg.Test"}

\* r"^\s*(PASS|FAIL|SKIP).*?(\w+\.\w+).*$" on line.strip()
MavenJunitMatch(l) == JestWordMatch(l) /\ l.id[1] \in DottedNames

RECURSIVE MavenJunitLines(_, _)
MavenJunitLines(log, m) ==
    IF log = <<>> THEN m
    ELSE LET l == Head(log)
         IN MavenJunitLines(Tail(log),
                IF MavenJunitMatch(l) THEN Put(m, l.id, JestWordStatus(l.sym)) ELSE m)

\* r"^(.+?)\s+>\s+(\w+)\s+(PASSED|FAILED|SKIPPED)$" on line.strip()
GradleMatch(l) == l.k = "gradle" /\ l.pre = "" /\ l.sym \in TestStatus

RECURSIVE MavenGradleLines(_, _)
MavenGradleLines(log, m) ==
    IF log = <<>> THEN m
    ELSE LET l == Head(log)
         IN MavenGradleLines(Tail(log),
                IF GradleMatch(l)
                THEN Put(m, Bare(l.id[1] \o "." \o l.items[1][2]), l.sym)
                ELSE m)

parse_log_maven(log) ==
    LET a == MavenLines(log, <<EmptyMap, "">>)[1]
        b == IF DOMAIN a = {} THEN MavenJunitLines(log, EmptyMap) ELSE a
        c == IF DOMAIN b = {} THEN MavenGradleLines(log, EmptyMap) ELSE b
    IN Returned(c)

RECURSIVE JunitLines(_, _)
JunitLines(log, st) ==
    IF log = <<>> THEN st
    ELSE LET l == JunitClean(Head(log))
             m == st[1]
             current_class == st[2]
             it == l.items
         IN JunitLines(Tail(log),
              IF RunningMatch(l) THEN <<m, l.id[1]>>
              ELSE IF TestsRunMatch(l) /\ current_class # ""
                   THEN <<ClassEntries(m, current_class, it[1][1], it[2][1], it[3][1], it[4][1]),
                          current_class>>
                   ELSE st)

\* r"^(\w+)\(([^)]+)\):\s*(PASSED|FAILED|ERROR|SKIPPED)$"
JunitMethodMatch(l) ==
    l.k = "jmethod" /\ l.pre = "" /\ l.sym \in {"PASSED", "FAILED", "ERROR", "SKIPPED"}

RECURSIVE JunitMethodLines(_, _)
JunitMethodLines(log, m) ==
    IF log = <<>> THEN m
    ELSE LET l == JunitClean(Head(log))
         IN JunitMethodLines(Tail(log),
                IF JunitMethodMatch(l)
                THEN Put(m, Bare(l.id[1] \o "." \o l.items[1][2]),
                         IF l.sym \in {"FAILED", "ERROR"} THEN FAILED
                         ELSE IF l.sym = "SKIPPED" THEN SKIPPED ELSE PASSED)
                ELSE m)

parse_log_junit(log) ==
    LET a == JunitLines(log, <<EmptyMap, "">>)[1]
        b == IF DOMAIN a = {} THEN JunitMethodLines(log, EmptyMap) ELSE a
    IN Returned(b)

\* --------------------------------------------- parsers/cppunit.py
\* "1) test: <name> (F) line: 12" when numbered, "Test name: <name>" otherwise
CppFailLine(numbered, name) ==
    Line("", "cppfail", IF numbered THEN "numbered" ELSE "plain", Bare(name), <<>>)
\* "OK (N tests)"
CppOkLine(n) == Line("", "cppok", "", NoId, <<<<n, "tests">>>>)
\* "Run: N  Failures: F  Errors: E"
CppRunLine(n, f, e) ==
    Line("", "cpprun", "", NoId, <<<<n, "run">>, <<f, "failures">>, <<e, "errors">>>>)
\* "There were N failures:" or "There were N errors:"
CppThereLine(n, word) == Line("", "cppthere", "", NoId, <<<<n, word>>>>)

IsFailuresMarker(l) == Has(l, "!!!FAILURES!!!")

\* log.split("!!!FAILURES!!!"): the runs of lines between the marker lines
RECURSIVE SplitFailures(_, _)
SplitFailures(log, cur) ==
    IF log = <<>> THEN <<cur>>
    ELSE IF IsFailuresMarker(Head(log))
         THEN <<cur>> \o SplitFailures(Tail(log), <<>>)
         ELSE SplitFailures(Tail(log), Append(cur, Head(log)))

\* parts[i] of a Python list, i counted from 0: an IndexError past the end
PyIndex(parts, i) ==
    [err |-> i + 1 > Len(parts), v |-> IF i + 1 > Len(parts) THEN <<>> ELSE parts[i + 1]]

\* log.split("!!!FAILURES!!!")[1] if "!!!" in log else ""
FailuresSection(log) ==
    IF LogHas(log, "!!!") THEN PyIndex(SplitFailures(log, <<>>), 1) ELSE PyIndex(<<<<>>>>, 0)

\* r'(?:\d+\)|\*)\s*(?:test|Test)(?:\s+name)?:\s*([\w:]+(?:::[\w]+)*)'
CppFailureMatch(l) == l.k = "cppfail" /\ l.sym = "numbered"
\* r'(?:Test name|test):\s*([\w:]+(?:::[\w]+)*)'
CppSectionMatch(l) == l.k = "cppfail"

RECURSIVE CppFailures(_, _)
CppFailures(log, m) ==
    IF log = <<>> THEN m
    ELSE CppFailures(Tail(log),
            IF CppFailureMatch(Head(log)) THEN Put(m, Head(log).id, FAILED) ELSE m)

RECURSIVE CppSectionFailures(_, _)
CppSectionFailures(section, m) ==
    IF section = <<>> THEN m
    ELSE CppSectionFailures(Tail(section),
            IF CppSectionMatch(Head(section)) /\ Head(section).id \notin DOMAIN m
            THEN Put(m, Head(section).id, FAILED) ELSE m)

\* r'OK\s*\((\d+)\s+tests?\)'
CppOkMatch(l) == l.k = "cppok" /\ Len(l.items) = 1
\* r'(?:Test Results:.*?)?Run:\s*(\d+)\s+Failures:\s*(\d+)\s+Errors:\s*(\d+)'
CppRunMatch(l) == l.k = "cpprun" /\ Len(l.items) = 3
\* r'There (?:were|was) (\d+) failures?' and r'There (?:were|was) (\d+) errors?'
CppThereFailuresMatch(l) == l.k = "cppthere" /\ Len(l.items) = 1 /\ l.items[1][2] = "failures"
CppThereErrorsMatch(l) == l.k = "cppthere" /\ Len(l.items) = 1 /\ l.items[1][2] = "errors"

\* the part after the failure names are collected
CppSummaries(log, m) ==
    LET ok == FirstIndex({i \in 1..Len(log) : CppOkMatch(log[i])})
        run == FirstIndex({i \in 1..Len(log) : CppRunMatch(log[i])})
        fc == FirstIndex({i \in 1..Len(log) : CppThereFailuresMatch(log[i])})
        ec == FirstIndex({i \in 1..Len(log) : CppThereErrorsMatch(log[i])})
    IN IF ok # 0 THEN PutNumbered(m, "test_passed_", log[ok].items[1][1], PASSED)
       ELSE IF run # 0
            THEN LET total == log[run].items[1][1]
                     failures == log[run].items[2][1]
                     errors == log[run].items[3][1]
                 IN IF DOMAIN m = {}
                    THEN PutNumbered(PutNumbered(m, "test_passed_", total - failures - errors, PASSED),
                                     "test_failed_", failures + errors, FAILED)
                    ELSE PutNumbered(m, "test_passed_", total - CountStatus(m, FAILED), PASSED)
            ELSE IF DOMAIN m # {} THEN m
                 ELSE IF fc # 0 \/ ec # 0
                      THEN PutNumbered(m, "test_failed_",
                               (IF fc # 0 THEN log[fc].items[1][1] ELSE 0)
                               + (IF ec # 0 THEN log[ec].items[1][1] ELSE 0), FAILED)
                      ELSE m

parse_log_cppunit(log) ==
    LET a == CppFailures(log, EmptyMap)
    IN IF LogHas(log, "!!!FAILURES!!!")
       THEN LET failures_section == FailuresSection(log)
            IN IF failures_section.err THEN Raised
               ELSE Returned(CppSummaries(log, CppSectionFailures(failures_section.v, a)))
       ELSE Returned(CppSummaries(log, a))

\* ----------------------------------------------- parsers/ctest.py
\* " n/m Test #n: <name> .....   <word>  1.00 sec"
CtestLine(id, word) == Line("", "ctest", word, id, <<>>)
\* "    n - <name> (Failed)", a line of the section of failed tests
CtestItemLine(id) == Line("", "ctestitem", "", id, <<>>)
\* "R% tests passed, F tests failed out of T"
CtestSummaryLine(r, f, t) ==
    Line("", "ctestsum", "", NoId, <<<<r, "percent">>, <<f, "failed">>, <<t, "total">>>>)

\* ctest_pattern, re.IGNORECASE
CtestMatch(l) == l.k = "ctest" /\ l.sym \in {"Passed", "Failed", "PASSED", "FAILED"}

CtestStatus(word) == IF word \in {"Passed", "PASSED"} THEN "PASSED" ELSE "FAILED"

\* for match in ctest_pattern.finditer(log): results[test_name] = status
RECURSIVE CtestTests(_, _)
CtestTests(log, m) ==
    IF log = <<>> THEN m
    ELSE CtestTests(Tail(log),
                    IF CtestMatch(Head(log))
                    THEN Put(m, Head(log).id, CtestStatus(Head(log).sym))
                    ELSE m)

\* failed_section: the first header that an item line follows, and the item
\* lines after it up to the first line that is not one
CtestSectionStart(log) ==
    FirstIndex({i \in 1..(Len(log) - 1) :
                  /\ Has(log[i], "The following tests FAILED:")
                  /\ log[i + 1].k = "ctestitem"})

CtestSection(log) ==
    LET s == CtestSectionStart(log)
    IN IF s = 0 THEN {}
       ELSE {j \in (s + 1)..Len(log) : \A k \in (s + 1)..j : log[k].k = "ctestitem"}

CtestNoSection(log, m) == m
CtestFailedSection(log, m) ==
    Update(m, [x \in {log[j].id : j \in CtestSection(log)} |-> "FAILED"])

\* summary_match
CtestSummaryMatch(l) == l.k = "ctestsum"

\* range(total - failed)
CtestPassTotal(total, failed) == total
CtestPassCount(total, failed) == total - failed

\* if not results: the entries made up from the first aggregate line
CtestSummary(log, m) ==
    LET s == FirstIndex({i \in 1..Len(log) : CtestSummaryMatch(log[i])})
    IN IF DOMAIN m # {} \/ s = 0 THEN Returned(m)
       ELSE LET total == PyInt(log[s].items[3][1])
                failed == PyInt(log[s].items[2][1])
            IN IF total.err \/ failed.err THEN Raised
               ELSE Returned(PutRange(PutRange(m, "synthetic_pass_", 0,
                                               CtestPassCount(total.v, failed.v), "PASSED"),
                                      "synthetic_fail_", 0, failed.v, "FAILED"))

parse_log_ctest(log) == CtestSummary(log, CtestFailedSection(log, CtestTests(log, EmptyMap)))

\* ---------------------------------------------- parsers/vitest.py
\* " <sym> <path> (n tests | k skipped) 12ms", sym TICK or XMARK; "(n tests)"
\* when k is NoGroup, and "test" for "tests" when n is 1
VitestFileLine(sym, path, n, k) ==
    Line("", "vfile", sym, Bare(path), <<<<n, "tests">>, <<k, "skipped">>>>)
\* "   <sym> <name>", an indented line of one test
VitestCaseLine(sym, name) == Line("", "vcase", sym, Bare(name), <<>>)
\* " Tests  n1 w1 | n2 w2 | ... (total)"
VitestTestsLine(items) == Line("", "vtests", "", NoId, items)

VitestStatus(sym) == IF sym = "TICK" THEN PASSED ELSE FAILED

\* file_summary_pattern
VitestFileMatch(l) == l.k = "vfile" /\ l.sym \in {"TICK", "XMARK"}

\* for match in file_summary_pattern.finditer(log)
RECURSIVE VitestFiles(_, _)
VitestFiles(log, out) ==
    IF log = <<>> \/ out.raised THEN out
    ELSE IF ~VitestFileMatch(Head(log)) THEN VitestFiles(Tail(log), out)
    ELSE LET l == Head(log)
             test_count == PyInt(l.items[1][1])
             skipped_count == GroupCount(l.items[2][1])
         IN IF test_count.err \/ skipped_count.err THEN Raised
            ELSE VitestFiles(Tail(log),
                    Returned(PutRange(PutRange(out.map, l.id[1] \o "_test_", 0,
                                               test_count.v - skipped_count.v,
                                               VitestStatus(l.sym)),
                                      l.id[1] \o "_skipped_", 0, skipped_count.v, SKIPPED)))

\* the text the individual pattern takes as the name of a file line
VitestFileText(l) == l.id[1] \o " (tests) 12ms"

\* if "(" in test_name and "tests)" in test_name: continue
VitestIsFileSummary(l) == l.k = "vfile" /\ l.items[1][1] # 1 /\ l.items[2][1] = NoGroup

\* individual_test_pattern: an indented line that starts with a mark
VitestIndividualMatch(l) ==
    /\ l.k \in {"vfile", "vcase"}
    /\ l.sym \in {"TICK", "XMARK"}

\* results[f"individual_{test_name.strip()}_{len(results)}"] = status
RECURSIVE VitestIndividual(_, _)
VitestIndividual(log, m) ==
    IF log = <<>> THEN m
    ELSE LET l == Head(log)
         IN IF VitestIndividualMatch(l) /\ ~VitestIsFileSummary(l)
            THEN VitestIndividual(Tail(log),
                    Put(m, Numbered("individual_"
                                      \o (IF l.k = "vfile" THEN VitestFileText(l) ELSE l.id[1])
                                      \o "_", Cardinality(DOMAIN m)),
                        VitestStatus(l.sym)))
            ELSE VitestIndividual(Tail(log), m)

\* r"Tests\s+(?:(\d+)\s+failed\s+\|)?\s*(?:(\d+)\s+passed\s+)?"
VitestSummaryMatch(l) == l.k = "vtests"

\* group (1): the count of failed tests, taken when a bar follows it
VitestFailedGroup(items) ==
    IF Len(items) >= 2 /\ items[1][2] = "failed" THEN items[1][1] ELSE NoGroup

\* group (2): the count of passed tests, right after the failed group if any
VitestPassedGroup(items) ==
    LET at == IF VitestFailedGroup(items) # NoGroup THEN 2 ELSE 1
    IN IF Len(items) >= at /\ items[at][2] = "passed" THEN items[at][1] ELSE NoGroup

\* if len(results) < (passed + failed) * 0.5
VitestTooFew(n, passed, failed) == 2 * n < passed + failed

VitestSummary(log, m) ==
    LET s == FirstIndex({i \in 1..Len(log) : VitestSummaryMatch(log[i])})
    IN IF s = 0 THEN Returned(m)
       ELSE LET failed == GroupCount(VitestFailedGroup(log[s].items))
                passed == GroupCount(VitestPassedGroup(log[s].items))
            IN IF failed.err \/ passed.err THEN Raised
               ELSE IF VitestTooFew(Cardinality(DOMAIN m), passed.v, failed.v)
                    THEN Returned(PutRange(PutRange(EmptyMap, "vitest_summary_passed_", 0,
                                                    passed.v, PASSED),
                                           "vitest_summary_failed_", 0, failed.v, FAILED))
                    ELSE Returned(m)

parse_log_vitest(log) ==
    LET files == VitestFiles(log, Returned(EmptyMap))
    IN IF files.raised THEN Raised
       ELSE VitestSummary(log, VitestIndividual(log, files.map))

\* ----------------------------------------------- parsers/gtest.py
\* "[ RUN      ] <name>"
GtestRunLine(id) == Line("", "grun", "RUN", id, <<>>)
\* "[       OK ] <name> (1 ms)", the word one of OK, PASSED, FAILED, SKIPPED, DISABLED
GtestResultLine(word, id) == Line("", "gres", word, id, <<<<1, "ms">>>>)
\* "[  FAILED  ] <name>, where GetParam() = 1 (1 ms)"
GtestParamLine(word, id) == Line("", "gres", word, id, <<<<1, "where">>>>)
\* "[==========] n tests from 1 test suite ran."
GtestTotalLine(n) == Line("", "gtotal", "", NoId, <<<<n, "tests">>>>)
\* "[  PASSED  ] n tests." and "[  FAILED  ] n tests, listed below:"
GtestCountLine(word, n) == Line("", "gcount", word, Numbered("", n), <<<<n, "tests">>>>)

\* no test has been started, or the last line with a name was a result line
NoTest == Bare("None")

\* run_match
GtestRunMatch(l) == l.k = "grun"

\* ok_match: the word in brackets, then a name; the count of a summary line
\* is a name to it
GtestOkMatch(l) == l.k \in {"gres", "gcount"} /\ l.sym \in {"OK", "PASSED"}

\* failed_match: the name ends the line or an opening bracket follows it
GtestFailedMatch(l) == l.k = "gres" /\ l.sym = "FAILED" /\ l.items[1][2] = "ms"

\* if not test_name.isdigit()
GtestIsDigit(id) == id[1] = "" /\ id[2]

\* skip_match
GtestSkipMatch(l) == l.k \in {"gres", "gcount"} /\ l.sym \in {"SKIPPED", "DISABLED"}

\* a start line sets current_test and leaves the map alone
GtestRunGuess(m, id) == Put(m, id, FAILED)
GtestRunStep(m, id) == m

\* the key a result line writes: the name it carries
GtestResultKeyCurrent(current_test, l) == current_test
GtestResultKey(current_test, l) == l.id

\* the loop over the lines: <<test_status_map, current_test>> after them
RECURSIVE GtestLoop(_, _, _)
GtestLoop(log, m, current_test) ==
    IF log = <<>> THEN m
    ELSE LET l == Head(log)
         IN IF GtestRunMatch(l) THEN GtestLoop(Tail(log), GtestRunStep(m, l.id), l.id)
            ELSE IF GtestOkMatch(l)
                 THEN GtestLoop(Tail(log), Put(m, GtestResultKey(current_test, l), PASSED), NoTest)
            ELSE IF GtestFailedMatch(l)
                 THEN GtestLoop(Tail(log),
                                IF ~GtestIsDigit(l.id)
                                THEN Put(m, GtestResultKey(current_test, l), FAILED)
                                ELSE m,
                                NoTest)
            ELSE IF GtestSkipMatch(l)
                 THEN GtestLoop(Tail(log), Put(m, GtestResultKey(current_test, l), SKIPPED), NoTest)
            ELSE GtestLoop(Tail(log), m, current_test)

\* summary_passed / summary_failed: the count of the first line of the word
GtestCountOf(log, word) ==
    LET s == FirstIndex({i \in 1..Len(log) : log[i].k = "gcount" /\ log[i].sym = word})
    IN IF s = 0 THEN [err |-> FALSE, v |-> 0] ELSE PyInt(log[s].items[1][1])

\* the fallback on the summary lines when no test was found
GtestSummary(log, m) ==
    LET s == FirstIndex({i \in 1..Len(log) : log[i].k = "gtotal"})
    IN IF DOMAIN m # {} \/ s = 0 THEN Returned(m)
       ELSE LET total_tests == PyInt(log[s].items[1][1])
                passed_tests == GtestCountOf(log, "PASSED")
                failed_tests == GtestCountOf(log, "FAILED")
            IN IF total_tests.err \/ passed_tests.err \/ failed_tests.err THEN Raised
               ELSE Returned(PutNumbered(PutNumbered(m, "test_passed_", passed_tests.v, PASSED),
                                         "test_failed_", failed_tests.v, FAILED))

parse_log_gtest(log) == GtestSummary(log, GtestLoop(log, EmptyMap, NoTest))

\* ---------------------------------------- parsers/bazel_custom.py
\* a fragment of the log that starts with an XML declaration and holds a test
\* suite with the test cases <<classname, name, markers>>. shape "ok": the
\* document is well formed and ends with the end tag of the suite;
\* "mismatched": the suite is closed but a case in it is not; "truncated": the
\* text stops before the end tag of the suite
XmlBlock(shape, cases) == Line("", "xml", shape, NoId, cases)
\* "//src/test/cpp/util:strings_test   <word>"
BazelSummaryLine(word) == Line("", "bazelsum", word, Bare("//src/test/cpp/util:strings_test"), <<>>)

\* the fragment holds "<?xml"
XmlOpens(l) == l.k = "xml"
\* the fragment holds "</testsuite>"
XmlCloses(l) == l.k = "xml" /\ l.sym \in {"ok", "mismatched"}

\* r"<\?xml.*?</testsuite>" from the declaration of fragment i: the fragment
\* of the first end tag at or after i, 0 when there is none
XmlBlockEnd(log, i) == FirstIndex({j \in i..Len(log) : XmlCloses(log[j])})

\* ET.fromstring(xml_str) of the fragments i..j: a document of one fragment
\* parses when it is well formed; a text running over a second declaration
\* or over other text does not
XmlParses(log, i, j) == i = j /\ log[i].sym = "ok"

\* testcase.find("failure") / testcase.find("skipped") on the markers
BazelStatus(markers) ==
    IF "failure" \in markers THEN "FAILED"
    ELSE IF "skipped" \in markers THEN "SKIPPED"
    ELSE "PASSED"

\* f"{testcase.get('classname')}.{testcase.get('name')}"
BazelName(case) == Bare(case[1] \o "." \o case[2])

\* for testcase in root.findall(".//testcase"): results[name] = status
RECURSIVE BazelCases(_, _)
BazelCases(cases, m) ==
    IF cases = <<>> THEN m
    ELSE BazelCases(Tail(cases), Put(m, BazelName(Head(cases)), BazelStatus(Head(cases)[3])))

\* re.findall and the loop over the blocks, from fragment i on; a block that
\* does not parse is passed over
RECURSIVE BazelBlocks(_, _, _)
BazelBlocks(log, i, m) ==
    IF i > Len(log) THEN m
    ELSE IF ~XmlOpens(log[i]) THEN BazelBlocks(log, i + 1, m)
    ELSE LET j == XmlBlockEnd(log, i)
         IN IF j = 0 THEN m
            ELSE BazelBlocks(log, j + 1,
                             IF XmlParses(log, i, j) THEN BazelCases(log[i].items, m) ELSE m)

\* the fallback on the summary line of the one target
BazelSummary(log, m) ==
    LET s == FirstIndex({i \in 1..Len(log) : log[i].k = "bazelsum" /\ log[i].sym \in {"PASSED", "FAILED"}})
    IN IF DOMAIN m # {} \/ s = 0 THEN m ELSE Put(m, log[s].id, log[s].sym)

parse_log_bazel_custom(log) == Returned(BazelSummary(log, BazelBlocks(log, 1, EmptyMap)))

\* ------------------------------------------ parsers/testng_ant.py
\* "[testng] <word>: <name>"
TestngLine(word, name) == Line("", "testng", word, Bare(name), <<>>)

\* r"\[testng\]\s+(PASSED|FAILED|SKIPPED):\s+(.+)"
TestngMatchAnyWord(l) == l.k = "testng"
TestngMatch(l) == l.k = "testng" /\ l.sym \in {"PASSED", "FAILED", "SKIPPED"}

\* for line in log.splitlines(): results[test_name.strip()] = status_str.strip()
RECURSIVE TestngLines(_, _)
TestngLines(log, m) ==
    IF log = <<>> THEN m
    ELSE TestngLines(Tail(log),
                     IF TestngMatch(Head(log)) THEN Put(m, Head(log).id, Head(log).sym) ELSE m)

parse_log_testng_ant(log) == Returned(TestngLines(log, EmptyMap))

\* ---------------------------------------------- parsers/catch2.py
\* '<TestCase name="<name>" ...>'
CatchOpenLine(name) == Line("", "tcopen", "", Bare(name), <<>>)
\* '<OverallResult success="true|false"/>'
CatchResultLine(success) == Line("", "tcresult", success, NoId, <<>>)
\* '</TestCase>'
CatchCloseLine == Line("", "tcclose", "", NoId, <<>>)
\* "<name> ... PASSED" or "<name> ... FAILED"
CatchTextLine(name, word) == Line("", "catchtext", word, Bare(name), <<>>)
\* "test cases: T | P passed | F failed"
CatchSummaryLine(t, p, f) ==
    Line("", "catchsum", "", NoId, <<<<t, "total">>, <<p, "passed">>, <<f, "failed">>>>)
\* "All tests passed (A assertions in N test cases)"
CatchAllPassedLine(n) == Line("", "catchall", "", NoId, <<<<n, "test cases">>>>)

\* xml_pattern: the opening tag, and after ".*?" with re.DOTALL the result
CatchOpenMatch(l) == l.k = "tcopen" /\ l.id # NoId
CatchResultMatch(l) == l.k = "tcresult" /\ l.sym \in {"true", "false"}

CatchStatus(success) == IF success = "true" THEN PASSED ELSE FAILED

\* the result a match that opens at open ends with: ".*?" runs over anything,
\* the end of the element included, up to the first result after the tag
CatchResultAfter(log, open) ==
    FirstIndex({j \in (open + 1)..Len(log) : CatchResultMatch(log[j])})

\* for match in re.finditer(xml_pattern, log, re.DOTALL), from line from on
RECURSIVE CatchXml(_, _, _)
CatchXml(log, from, m) ==
    LET open == FirstIndex({i \in from..Len(log) : CatchOpenMatch(log[i])})
        result == IF open = 0 THEN 0 ELSE CatchResultAfter(log, open)
    IN IF open = 0 \/ result = 0 THEN m
       ELSE CatchXml(log, result + 1, Put(m, log[open].id, CatchStatus(log[result].sym)))

\* the lines with " PASSED", else with " FAILED": the rest of the line is the name
RECURSIVE CatchText(_, _)
CatchText(log, m) ==
    IF log = <<>> THEN m
    ELSE CatchText(Tail(log),
            IF Head(log).k = "catchtext" /\ Head(log).sym \in {"PASSED", "FAILED"}
               /\ Head(log).id # NoId
            THEN Put(m, Head(log).id, IF Head(log).sym = "PASSED" THEN PASSED ELSE FAILED)
            ELSE m)

CatchSummaryMatch(l) == l.k = "catchsum" /\ Len(l.items) = 3
CatchAllPassedMatch(l) == l.k = "catchall" /\ Len(l.items) = 1

\* range(failed): the third number of the line; the first one is read and not used
CatchFailedFromTotal(total, passed, failed) == total - passed
CatchFailedCount(total, passed, failed) == failed

\* the fallbacks on the aggregate lines
CatchSummary(log) ==
    LET s == FirstIndex({i \in 1..Len(log) : CatchSummaryMatch(log[i])})
        a == FirstIndex({i \in 1..Len(log) : CatchAllPassedMatch(log[i])})
    IN IF s # 0
       THEN LET total == PyInt(log[s].items[1][1])
                passed == PyInt(log[s].items[2][1])
                failed == PyInt(log[s].items[3][1])
            IN IF total.err \/ passed.err \/ failed.err THEN Raised
               ELSE Returned(PutNumbered(PutNumbered(EmptyMap, "test_passed_", passed.v, PASSED),
                                         "test_failed_",
                                         CatchFailedCount(total.v, passed.v, failed.v), FAILED))
       ELSE IF a # 0
            THEN LET passed == PyInt(log[a].items[1][1])
                 IN IF passed.err THEN Raised
                    ELSE Returned(PutNumbered(EmptyMap, "test_passed_", passed.v, PASSED))
            ELSE Returned(EmptyMap)

parse_log_catch2(log) ==
    LET xml == CatchXml(log, 1, EmptyMap)
        text == CatchText(log, EmptyMap)
    IN IF DOMAIN xml # {} THEN Returned(xml)
       ELSE IF DOMAIN text # {} THEN Returned(text)
            ELSE CatchSummary(log)

\* ------------------------------- parsers imported but not in the sources
\* mocha, pytest, go_test, cargo, gradle, lodash_custom, karma: a parser of the
\* contract of the specification (pure, never raises, empty on no match), which
\* reads the result lines of its own tool
ToolLine(tool, name, status) == Line("", "tool", tool, Bare(name), <<<<0, status>>>>)

ToolMatch(tool, l) == l.k = "tool" /\ l.sym = tool /\ Len(l.items) = 1

RECURSIVE ToolLines(_, _, _)
ToolLines(tool, log, m) ==
    IF log = <<>> THEN m
    ELSE ToolLines(tool, Tail(log),
            IF ToolMatch(tool, Head(log)) THEN Put(m, Head(log).id, Head(log).items[1][2]) ELSE m)

parse_log_external(tool, log) == Returned(ToolLines(tool, log, EmptyMap))

\* ------------------------------------------------ verify_testing.py
\* list(PARSERS.keys()): the registry in declaration order
PARSERS ==
    <<"jest", "mocha", "pytest", "go_test", "cargo", "maven", "gradle", "junit",
      "lodash_custom", "karma", "jasmine", "cspell", "stylelint", "eslint">>

Registered == {PARSERS[i] : i \in 1..Len(PARSERS)}

\* PARSERS[name](log)
ParserFunc(name, log) ==
    CASE name = "jest" -> parse_log_jest(log)
      [] name = "maven" -> parse_log_maven(log)
      [] name = "junit" -> parse_log_junit(log)
      [] name = "cspell" -> parse_log_cspell(log)
      [] name = "stylelint" -> parse_log_stylelint(log)
      [] name = "eslint" -> parse_log_eslint(log)
      [] name = "jasmine" -> parse_log_external("karma", log)
      [] OTHER -> parse_log_external(name, log)

Languages == {"javascript", "python", "go", "rust", "java"}

LANGUAGE_FRAMEWORKS ==
    [lang \in Languages |->
        CASE lang = "javascript" ->
                <<"jest", "mocha", "karma", "jasmine", "cspell", "stylelint", "eslint">>
          [] lang = "python" -> <<"pytest">>
          [] lang = "go" -> <<"go_test">>
          [] lang = "rust" -> <<"cargo">>
          [] lang = "java" -> <<"gradle", "maven", "junit">>]

InSeq(x, seq) == \E i \in 1..Len(seq) : seq[i] = x

\* "+".join(names)
RECURSIVE JoinPlus(_)
JoinPlus(names) ==
    IF names = <<>> THEN ""
    ELSE IF Len(names) = 1 THEN names[1]
         ELSE names[1] \o "+" \o JoinPlus(Tail(names))

\* for framework in framework_list: if framework not in parsers_to_try: append
RECURSIVE AppendFrameworksNoCheck(_, _)
AppendFrameworksNoCheck(list, framework_list) ==
    IF framework_list = <<>> THEN list
    ELSE AppendFrameworksNoCheck(Append(list, Head(framework_list)), Tail(framework_list))
RECURSIVE AppendFrameworks(_, _)
AppendFrameworks(list, framework_list) ==
    IF framework_list = <<>> THEN list
    ELSE AppendFrameworks(IF InSeq(Head(framework_list), list) THEN list
                          ELSE Append(list, Head(framework_list)),
                          Tail(framework_list))

\* parse_test_output, step 5: the list of parsers to try in priority order
BuildParsersToTry(test_framework, language) ==
    LET first == IF test_framework # "" /\ test_framework \in Registered
                 THEN <<test_framework>> ELSE <<>>
    IN IF language \in Languages
       THEN AppendFrameworks(first, LANGUAGE_FRAMEWORKS[language])
       ELSE first

\* [p for p in all_parsers if p not in parsers_to_try]
UntriedAll(all_parsers, tried) == all_parsers
Untried(all_parsers, tried) ==
    LET Keep(p) == ~InSeq(p, tried) IN SelectSeq(all_parsers, Keep)

\* the value a call returns: None, or (result, parser_name)
None == [ok |-> FALSE, result |-> EmptyMap, parser_name |-> ""]
Some(result, parser_name) == [ok |-> TRUE, result |-> result, parser_name |-> parser_name]

\* parsed_test_status.json
NotSaved == [written |-> FALSE, parser |-> "", parsed_test_status |-> EmptyMap]
Saved(result, parser_name) ==
    [written |-> TRUE, parser |-> parser_name, parsed_test_status |-> result]

\* try_parsers: combined_results = {}
StaleDict(old) == old
NewDict(old) == EmptyMap

\* try_parsers: combined_results.update(result)
UpdateKeepFirst(combined, result) == Update(result, combined)
CombinedUpdate(combined, result) == Update(combined, result)

\* try_parsers: "if result:" guards the merge and the append of the name
ResultCountsAlways(result) == TRUE
ResultCounts(result) == DOMAIN result # {}

\* try_parsers: "except Exception as e: print(...); continue" touches nothing
LostOnRaise(combined) == EmptyMap
AfterRaise(combined) == combined

\* try_parsers: the loop goes on to the next name whatever the parser gave
RestAfterStopOnSuccess(queue, got) == IF got THEN <<>> ELSE Tail(queue)
RestAfter(queue, got) == Tail(queue)

\* try_parsers: "if combined_results: return ..., '+'.join(...)" else None
TryParsersReturnAlways(combined, successful) == Some(combined, JoinPlus(successful))
TryParsersReturn(combined, successful) ==
    IF DOMAIN combined # {} THEN Some(combined, JoinPlus(successful)) ELSE None

\* ------------------------------------------------------------ state
VARIABLES
    pc,                 \* where the run of main() stands
    metadata,           \* the loaded metadata: [found, test_framework, language]
    is_python_repo,     \* the --python-repo flag
    log_content,        \* the text of test_output.txt, <<>> when empty or missing
    test_framework,     \* parse_test_output: the framework hint, lower-cased
    language,           \* parse_test_output: the language hint after the override
    parsers_to_try,     \* parse_test_output: the candidate list
    phase,              \* which call of try_parsers runs: "hinted" or "fallback"
    parser_names,       \* try_parsers: its argument
    queue,              \* try_parsers: the names the loop has still to take
    combined_results,   \* try_parsers: the accumulator
    successful_parsers, \* try_parsers: the names that gave results
    parser_result,      \* the value the last call of try_parsers returned
    parse_result,       \* the value parse_test_output returned
    invoked,            \* the parsers called in this run, in order: <<phase, name>>
    exit_code,          \* main: the code of sys.exit, -1 while running
    saved,              \* parsed_test_status.json: None, or what was written
    history,            \* per input: the result of its first finished run, the runs counted
    strategy,           \* a parser applied on its own: its name
    strategy_log,       \* the log it was applied to
    strategy_out,       \* what it returned
    call_locals,        \* concurrent calls of parse_test_output: the locals of each
    shared_parsers,     \* the module-level PARSERS as the running process holds it
    shared_frameworks,  \* the module-level LANGUAGE_FRAMEWORKS as the process holds it
    failure_threshold,  \* main: args.failure_threshold of the run that exited
    save_error,         \* main: save_parsed_result caught an IOError
    pipeline_pc,        \* generate_profile.py: where the run of its main stands
    pipeline_args,      \* its arguments: [python_repo, livestream, verify, verify_testing]
    stage_cmd,          \* the command of the stage that runs, <<>> when none does
    stage_runs,         \* the stages run so far, in order: <<stage, return code>>
    pipeline_results,   \* pipeline_results['stages']: the success flag of each stage
    profile_code        \* what generate_profile_from_pipeline returned: "None" or "profile"

vars ==
    <<pc, metadata, is_python_repo, log_content, test_framework, language, parsers_to_try,
      phase, parser_names, queue, combined_results, successful_parsers, parser_result,
      parse_result, invoked, exit_code, saved, history, strategy, strategy_log, strategy_out,
      call_locals, shared_parsers, shared_frameworks, failure_threshold, save_error,
      pipeline_pc, pipeline_args, stage_cmd, stage_runs, pipeline_results, profile_code>>

selectorVars ==
    <<pc, metadata, is_python_repo, log_content, test_framework, language, parsers_to_try,
      phase, parser_names, queue, combined_results, successful_parsers, parser_result,
      parse_result, invoked, exit_code, saved, history>>

strategyVars == <<strategy, strategy_log, strategy_out>>

concurrentVars == <<call_locals, shared_parsers, shared_frameworks>>

\* what the selector and the parsers applied on their own leave alone
pipelineVars ==
    <<pipeline_pc, pipeline_args, stage_cmd, stage_runs, pipeline_results, profile_code>>

outsideVars == <<concurrentVars, failure_threshold, save_error, pipelineVars>>

\* ----------------------------------------------------------- inputs
\* all sequences of at most n elements of S
RECURSIVE SeqsUpTo(_, _)
SeqsUpTo(S, n) ==
    IF n = 0 THEN {<<>>}
    ELSE LET shorter == SeqsUpTo(S, n - 1)
         IN shorter \cup {Append(q, x) : q \in shorter, x \in S}

SelectorLines ==
    { CheckLine("TICK", Bare("testA")),
      CheckLine("CROSS", Bare("stylelint")),
      TestsLine(<<<<Huge, "passed">>>>),
      EslintLine(1, 1),
      TextLine("Stylelint"),
      RunningLine("[INFO]", "pkg.Test"),
      TestsRunLine("", 2, 1, 0, 0, ""),
      ToolLine("pytest", "testA", FAILED),
      ToolLine("karma", "testB", PASSED),
      TextLine("noise") }

SelectorLogs == SeqsUpTo(SelectorLines, MaxLogLen)

FrameworkHints == {"", "Jest", "eslint", "pytest", "nosuch"}
LanguageHints == {"JavaScript", "java", "cobol"}

Metadata(fw, lang) == [found |-> TRUE, test_framework |-> fw, language |-> lang]
NoMetadata == [found |-> FALSE, test_framework |-> "", language |-> ""]

Input(md, flag, log) == [metadata |-> md, is_python_repo |-> flag, log_content |-> log]

\* --python-repo is given with one of the languages: it overrides them all alike
SelectorInputs ==
    { Input(Metadata(fw, lang), FALSE, log) :
        fw \in FrameworkHints, lang \in LanguageHints, log \in SelectorLogs }
    \cup { Input(Metadata(fw, "JavaScript"), TRUE, log) :
        fw \in FrameworkHints, log \in SelectorLogs }
    \cup { Input(NoMetadata, FALSE, <<>>) }

CurrentInput == Input(metadata, is_python_repo, log_content)

\* ------------------------------------ parse_test_output as a function
\* try_parsers(log_content, names): the loop from the given accumulators on
RECURSIVE TryParsersLoop(_, _, _, _)
TryParsersLoop(log, names, combined, successful) ==
    IF names = <<>> THEN TryParsersReturn(combined, successful)
    ELSE LET parser_name == Head(names)
             out == ParserFunc(parser_name, log)
             got == parser_name \in Registered /\ ~out.raised /\ ResultCounts(out.map)
         IN TryParsersLoop(log, RestAfter(names, got),
                           IF got THEN CombinedUpdate(combined, out.map) ELSE combined,
                           IF got THEN Append(successful, parser_name) ELSE successful)

try_parsers(log, names) == TryParsersLoop(log, names, EmptyMap, <<>>)

\* the hints parse_test_output reads from the metadata and the flag
HintFramework(in) == Lower(in.metadata.test_framework)
HintLanguage(in) ==
    IF in.is_python_repo /\ Lower(in.metadata.language) # "python"
    THEN "python" ELSE Lower(in.metadata.language)

\* what one call of parse_test_output returns when nothing else runs
parse_test_output(in) ==
    IF ~in.metadata.found \/ in.log_content = <<>> THEN None
    ELSE LET list == BuildParsersToTry(HintFramework(in), HintLanguage(in))
             hinted == IF list # <<>> THEN try_parsers(in.log_content, list) ELSE None
             untried_parsers == Untried(PARSERS, list)
         IN IF hinted.ok THEN hinted
            ELSE IF untried_parsers # <<>>
                 THEN try_parsers(in.log_content, untried_parsers)
                 ELSE None

\* ------------------------------------------ calls running side by side
\* the threads of one process that call parse_test_output
Calls == {"call1", "call2"}

\* the locals of a call that has not started
IdleCall ==
    [pc |-> "idle", in |-> Input(NoMetadata, FALSE, <<>>), parsers_to_try |-> <<>>,
     phase |-> "", queue |-> <<>>, combined_results |-> EmptyMap,
     successful_parsers |-> <<>>, parse_result |-> None]

\* step 5 with the tables read from the running process
BuildParsersToTryFrom(parsers, frameworks, fw, lang) ==
    LET first == IF fw # "" /\ InSeq(fw, parsers) THEN <<fw>> ELSE <<>>
    IN IF lang \in DOMAIN frameworks
       THEN AppendFrameworks(first, frameworks[lang])
       ELSE first

\* step 5 builds a list of its own ("parsers_to_try = []", then append): the
\* table entry it reads is left as it was
FrameworksAliased(frameworks, lang, built) ==
    IF lang \in DOMAIN frameworks THEN [frameworks EXCEPT ![lang] = built] ELSE frameworks
FrameworksAfterBuild(frameworks, lang, built) == frameworks

\* the inputs of the calls that run side by side
ConcurrentInputs ==
    { Input(Metadata("Jest", "JavaScript"), FALSE, <<CheckLine("TICK", Bare("testA"))>>),
      Input(Metadata("eslint", "JavaScript"), FALSE,
            <<CheckLine("CROSS", Bare("testA")), EslintLine(1, 1)>>),
      Input(Metadata("nosuch", "cobol"), FALSE, <<CheckLine("CROSS", Bare("stylelint"))>>),
      Input(Metadata("pytest", "java"), FALSE, <<TextLine("noise")>>),
      Input(Metadata("", "JavaScript"), FALSE, <<>>) }

\* a call enters parse_test_output: steps 1 to 5, then "if parsers_to_try:"
ConcStart(c, in) ==
    /\ call_locals[c].pc = "idle"
    /\ IF ~in.metadata.found \/ in.log_content = <<>>
       THEN /\ call_locals' = [call_locals EXCEPT ![c] =
                            [IdleCall EXCEPT !.pc = "returned", !.in = in]]
            /\ UNCHANGED shared_frameworks
       ELSE LET lang == HintLanguage(in)
                list == BuildParsersToTryFrom(shared_parsers, shared_frameworks,
                                              HintFramework(in), lang)
            IN /\ call_locals' = [call_locals EXCEPT ![c] =
                               [IdleCall EXCEPT !.pc = IF list # <<>> THEN "try" ELSE "sweep",
                                                !.in = in,
                                                !.parsers_to_try = list,
                                                !.phase = IF list # <<>> THEN "hinted" ELSE "",
                                                !.queue = list]]
               /\ shared_frameworks' = FrameworksAfterBuild(shared_frameworks, lang, list)
    /\ UNCHANGED shared_parsers
    /\ UNCHANGED <<selectorVars, strategyVars, failure_threshold, save_error, pipelineVars>>

ConcStartFrom(inputs) == \E c \in Calls : call_locals[c].pc = "idle" /\ \E in \in inputs : ConcStart(c, in)

\* one turn of the loop of try_parsers in a call
ConcTryParser(c) ==
    /\ call_locals[c].pc = "try"
    /\ call_locals[c].queue # <<>>
    /\ LET parser_name == Head(call_locals[c].queue)
           out == ParserFunc(parser_name, call_locals[c].in.log_content)
           got == InSeq(parser_name, shared_parsers) /\ ~out.raised /\ ResultCounts(out.map)
       IN call_locals' = [call_locals EXCEPT
              ![c].queue = RestAfter(@, got),
              ![c].combined_results = IF got THEN CombinedUpdate(@, out.map) ELSE @,
              ![c].successful_parsers = IF got THEN Append(@, parser_name) ELSE @]
    /\ UNCHANGED <<shared_parsers, shared_frameworks>>
    /\ UNCHANGED <<selectorVars, strategyVars, failure_threshold, save_error, pipelineVars>>

\* the end of try_parsers in a call, and what parse_test_output does with it
ConcTryReturn(c) ==
    /\ call_locals[c].pc = "try"
    /\ call_locals[c].queue = <<>>
    /\ LET returned == TryParsersReturn(call_locals[c].combined_results,
                                             call_locals[c].successful_parsers)
       IN call_locals' = [call_locals EXCEPT
              ![c].pc = IF returned.ok \/ call_locals[c].phase = "fallback"
                        THEN "returned" ELSE "sweep",
              ![c].parse_result = IF returned.ok THEN returned ELSE None]
    /\ UNCHANGED <<shared_parsers, shared_frameworks>>
    /\ UNCHANGED <<selectorVars, strategyVars, failure_threshold, save_error, pipelineVars>>

\* priority 3 in a call: the parsers not tried yet
ConcFallback(c) ==
    /\ call_locals[c].pc = "sweep"
    /\ LET untried_parsers == Untried(shared_parsers, call_locals[c].parsers_to_try)
       IN call_locals' = [call_locals EXCEPT
              ![c].pc = IF untried_parsers # <<>> THEN "try" ELSE "returned",
              ![c].phase = "fallback",
              ![c].queue = untried_parsers,
              ![c].combined_results = NewDict(@),
              ![c].successful_parsers = <<>>]
    /\ UNCHANGED <<shared_parsers, shared_frameworks>>
    /\ UNCHANGED <<selectorVars, strategyVars, failure_threshold, save_error, pipelineVars>>

\* the caller has taken the value: the thread is free for another call
ConcFinish(c) ==
    /\ call_locals[c].pc = "returned"
    /\ call_locals' = [call_locals EXCEPT ![c] = IdleCall]
    /\ UNCHANGED <<shared_parsers, shared_frameworks>>
    /\ UNCHANGED <<selectorVars, strategyVars, failure_threshold, save_error, pipelineVars>>
\* --failure-threshold as a fraction <<numerator, denominator>>; 0.09 by default
DefaultThreshold == <<9, 100>>
Thresholds == {DefaultThreshold, <<0, 1>>, <<1, 2>>, <<-1, 10>>}

\* "failure_rate > args.failure_threshold" with failure_rate = failed / total
RateExceedsOrEquals(failed, total, threshold) == failed * threshold[2] >= threshold[1] * total
RateExceeds(failed, total, threshold) == failed * threshold[2] > threshold[1] * total

\* ----------------------------------------------- generate_profile.py
Stages == {1, 2, 3}

\* the arguments of main that reach the commands of the stages
PipelineArgs ==
    [python_repo : BOOLEAN, livestream : BOOLEAN, verify : BOOLEAN, verify_testing : BOOLEAN]
NoArgs == [python_repo |-> FALSE, livestream |-> FALSE, verify |-> FALSE, verify_testing |-> FALSE]

\* pipeline_results['stages'] as run_pipeline creates it: no stage has succeeded
NoStageRun == [n \in Stages |-> FALSE]

\* stage1_cmd, stage2_cmd, stage3_cmd: the script and the flags appended to it
StageCmd(n, args) ==
    CASE n = 1 ->
            <<"simple_repo_to_dockerfile.py">>
            \o (IF args.python_repo THEN <<"--python-repo">> ELSE <<>>)
            \o (IF args.verify \/ args.verify_testing THEN <<"--verify">> ELSE <<>>)
            \o (IF args.verify_testing THEN <<"--verify-testing">> ELSE <<>>)
      [] n = 2 ->
            <<"verify_dockerfile.py">>
            \o (IF args.python_repo THEN <<"--python-repo">> ELSE <<>>)
            \o <<"--cleanup">>
      [] OTHER ->
            <<"verify_testing.py">>
            \o (IF args.python_repo THEN <<"--python-repo">> ELSE <<>>)

\* how a command may end: it exits with a code, it runs out of time, or
\* starting or reading it raises
Outcomes == {"exit 0", "exit 1", "exit 2", "timeout", "raised"}

\* run_pipeline_command: the return code, or -1 after a timeout or an exception
ReturnCode(outcome) ==
    CASE outcome = "exit 0" -> 0
      [] outcome = "exit 1" -> 1
      [] outcome = "exit 2" -> 2
      [] OTHER -> -1

\* "if exit_code != 0: ... return pipeline_results" after stage 1 and stage 2
StageNeverStops(n, returncode) == FALSE
StageStops(n, returncode) == n < 3 /\ returncode # 0

\* the three checks at the head of generate_profile_from_pipeline
StagesSucceeded(results) == results[1] /\ results[2] /\ results[3]

\* --------------------------------------------------- initial state
Init ==
    /\ pc = "idle"
    /\ metadata = NoMetadata
    /\ is_python_repo = FALSE
    /\ log_content = <<>>
    /\ test_framework = ""
    /\ language = ""
    /\ parsers_to_try = <<>>
    /\ phase = ""
    /\ parser_names = <<>>
    /\ queue = <<>>
    /\ combined_results = EmptyMap
    /\ successful_parsers = <<>>
    /\ parser_result = None
    /\ parse_result = None
    /\ invoked = <<>>
    /\ exit_code = -1
    /\ saved = NotSaved
    /\ history = EmptyMap
    /\ strategy = ""
    /\ strategy_log = <<>>
    /\ strategy_out = Returned(EmptyMap)
    /\ call_locals = [c \in Calls |-> IdleCall]
    /\ shared_parsers = PARSERS
    /\ shared_frameworks = LANGUAGE_FRAMEWORKS
    /\ failure_threshold = DefaultThreshold
    /\ save_error = FALSE
    /\ pipeline_pc = "idle"
    /\ pipeline_args = NoArgs
    /\ stage_cmd = <<>>
    /\ stage_runs = <<>>
    /\ pipeline_results = NoStageRun
    /\ profile_code = "None"

\* ------------------------------------------------ parse_test_output
\* steps 1 to 5: load the metadata and the log, read the hints, build the list
Start(in) ==
    /\ pc = "idle"
    /\ metadata' = in.metadata
    /\ is_python_repo' = in.is_python_repo
    /\ log_content' = in.log_content
    /\ invoked' = <<>>
    /\ exit_code' = -1
    /\ parser_result' = None
    /\ phase' = ""
    /\ IF ~in.metadata.found \/ in.log_content = <<>>
       THEN /\ parse_result' = None
            /\ pc' = "returned"
            /\ test_framework' = ""
            /\ language' = ""
            /\ parsers_to_try' = <<>>
       ELSE LET fw == Lower(in.metadata.test_framework)
                lang == IF in.is_python_repo /\ Lower(in.metadata.language) # "python"
                        THEN "python" ELSE Lower(in.metadata.language)
            IN /\ test_framework' = fw
               /\ language' = lang
               /\ parsers_to_try' = BuildParsersToTry(fw, lang)
               /\ parse_result' = None
               /\ pc' = "selected"
    /\ UNCHANGED <<parser_names, queue, combined_results, successful_parsers, saved, history>>
    /\ UNCHANGED <<strategyVars, outsideVars>>

\* a run on one of the given inputs
StartFrom(inputs) ==
    /\ pc = "idle"
    /\ \E in \in inputs : Start(in)

\* the entry of try_parsers(log_content, names)
CallTryParsers(names, ph) ==
    /\ phase' = ph
    /\ parser_names' = names
    /\ queue' = names
    /\ combined_results' = NewDict(combined_results)
    /\ successful_parsers' = <<>>
    /\ pc' = "try"

\* "if parsers_to_try:" is true: try the hinted parsers
CallHinted ==
    /\ pc = "selected"
    /\ parsers_to_try # <<>>
    /\ CallTryParsers(parsers_to_try, "hinted")
    /\ UNCHANGED <<metadata, is_python_repo, log_content, test_framework, language,
                   parsers_to_try, parser_result, parse_result, invoked, exit_code, saved,
                   history>>
    /\ UNCHANGED <<strategyVars, outsideVars>>

\* "if parsers_to_try:" is false
SkipHinted ==
    /\ pc = "selected"
    /\ parsers_to_try = <<>>
    /\ pc' = "sweep"
    /\ UNCHANGED <<metadata, is_python_repo, log_content, test_framework, language,
                   parsers_to_try, phase, parser_names, queue, combined_results,
                   successful_parsers, parser_result, parse_result, invoked, exit_code,
                   saved, history>>
    /\ UNCHANGED <<strategyVars, outsideVars>>

\* one turn of the loop of try_parsers
TryParser ==
    /\ pc = "try"
    /\ queue # <<>>
    /\ LET parser_name == Head(queue)
           out == ParserFunc(parser_name, log_content)
           got == parser_name \in Registered /\ ~out.raised /\ ResultCounts(out.map)
       IN /\ queue' = RestAfter(queue, got)
          /\ invoked' = IF parser_name \in Registered
                        THEN Append(invoked, <<phase, parser_name>>) ELSE invoked
          /\ combined_results' = IF got THEN CombinedUpdate(combined_results, out.map)
                                 ELSE IF parser_name \in Registered /\ out.raised
                                      THEN AfterRaise(combined_results)
                                      ELSE combined_results
          /\ successful_parsers' = IF got THEN Append(successful_parsers, parser_name)
                                   ELSE successful_parsers
    /\ UNCHANGED <<pc, metadata, is_python_repo, log_content, test_framework, language,
                   parsers_to_try, phase, parser_names, parser_result, parse_result,
                   exit_code, saved, history>>
    /\ UNCHANGED <<strategyVars, outsideVars>>

\* the end of try_parsers
TryReturn ==
    /\ pc = "try"
    /\ queue = <<>>
    /\ parser_result' = TryParsersReturn(combined_results, successful_parsers)
    /\ pc' = "tried"
    /\ UNCHANGED <<metadata, is_python_repo, log_content, test_framework, language,
                   parsers_to_try, phase, parser_names, queue, combined_results,
                   successful_parsers, parse_result, invoked, exit_code, saved, history>>
    /\ UNCHANGED <<strategyVars, outsideVars>>

\* after the hinted call: "if parser_result: return result, parser_name"
AfterHinted ==
    /\ pc = "tried"
    /\ phase = "hinted"
    /\ IF parser_result.ok
       THEN parse_result' = parser_result /\ pc' = "returned"
       ELSE parse_result' = parse_result /\ pc' = "sweep"
    /\ UNCHANGED <<metadata, is_python_repo, log_content, test_framework, language,
                   parsers_to_try, phase, parser_names, queue, combined_results,
                   successful_parsers, parser_result, invoked, exit_code, saved, history>>
    /\ UNCHANGED <<strategyVars, outsideVars>>

\* priority 3: the remaining parsers as fallback
CallFallback ==
    /\ pc = "sweep"
    /\ LET untried_parsers == Untried(PARSERS, parsers_to_try)
       IN IF untried_parsers # <<>>
          THEN /\ CallTryParsers(untried_parsers, "fallback")
               /\ parse_result' = parse_result
          ELSE /\ parse_result' = None
               /\ pc' = "returned"
               /\ UNCHANGED <<phase, parser_names, queue, combined_results, successful_parsers>>
    /\ UNCHANGED <<metadata, is_python_repo, log_content, test_framework, language,
                   parsers_to_try, parser_result, invoked, exit_code, saved, history>>
    /\ UNCHANGED <<strategyVars, outsideVars>>

\* after the fallback call: its result, or None
AfterFallback ==
    /\ pc = "tried"
    /\ phase = "fallback"
    /\ parse_result' = IF parser_result.ok THEN parser_result ELSE None
    /\ pc' = "returned"
    /\ UNCHANGED <<metadata, is_python_repo, log_content, test_framework, language,
                   parsers_to_try, phase, parser_names, queue, combined_results,
                   successful_parsers, parser_result, invoked, exit_code, saved, history>>
    /\ UNCHANGED <<strategyVars, outsideVars>>

\* ------------------------------------------------------------- main
\* main() after parse_test_output returned: the summary, the saved file, the exit.
\* io_ok is false when open() raises IOError in save_parsed_result.
Main(record) ==
    /\ pc = "returned"
    /\ \E threshold \in Thresholds, io_ok \in BOOLEAN :
         /\ failure_threshold' = threshold
         /\ IF parse_result.ok
            THEN LET result == parse_result.result
                     total == Cardinality(DOMAIN result)
                     failed == CountStatus(result, FAILED)
                 IN /\ saved' = IF io_ok THEN Saved(result, parse_result.parser_name) ELSE saved
                    /\ save_error' = ~io_ok
                    /\ exit_code' =
                          IF total > 0
                          THEN IF RateExceeds(failed, total, threshold) THEN 1 ELSE 0
                          ELSE IF failed > 0 THEN 1 ELSE 0
            ELSE /\ saved' = saved
                 /\ save_error' = FALSE
                 /\ exit_code' = 1
    /\ history' =
          IF ~record THEN history
          ELSE IF CurrentInput \notin DOMAIN history
               THEN Put(history, CurrentInput, [result |-> parse_result, runs |-> 1])
               ELSE [history EXCEPT ![CurrentInput].runs = IF @ < MaxRuns THEN @ + 1 ELSE @]
    /\ pc' = "done"
    /\ UNCHANGED <<metadata, is_python_repo, log_content, test_framework, language,
                   parsers_to_try, phase, parser_names, queue, combined_results,
                   successful_parsers, parser_result, parse_result, invoked>>
    /\ UNCHANGED <<strategyVars, concurrentVars, pipelineVars>>

\* the process ended; the next run is a new process
NewProcess ==
    /\ pc = "done"
    /\ pc' = "idle"
    /\ metadata' = NoMetadata
    /\ is_python_repo' = FALSE
    /\ log_content' = <<>>
    /\ test_framework' = ""
    /\ language' = ""
    /\ parsers_to_try' = <<>>
    /\ phase' = ""
    /\ parser_names' = <<>>
    /\ queue' = <<>>
    /\ combined_results' = EmptyMap
    /\ successful_parsers' = <<>>
    /\ parser_result' = None
    /\ parse_result' = None
    /\ invoked' = <<>>
    /\ exit_code' = -1
    /\ saved' = NotSaved
    /\ failure_threshold' = DefaultThreshold
    /\ save_error' = FALSE
    /\ UNCHANGED history
    /\ UNCHANGED <<strategyVars, concurrentVars, pipelineVars>>

\* parse_test_output is called again in the same process
CallAgain ==
    /\ pc = "done"
    /\ pc' = "idle"
    /\ UNCHANGED <<metadata, is_python_repo, log_content, test_framework, language,
                   parsers_to_try, phase, parser_names, queue, combined_results,
                   successful_parsers, parser_result, parse_result, invoked, exit_code,
                   saved, history>>
    /\ UNCHANGED <<strategyVars, outsideVars>>

\* ------------------------------------------- try_parsers on its own
\* names a caller may pass: registered ones, and one that is not
DirectNames == {"eslint", "jest", "stylelint", "nosuch"}

\* logs on which jest raises (a count too long for int()), with and without
\* lines the lint parsers read, and a log on which nothing raises
DirectLogs ==
    { <<TestsLine(<<<<Huge, "passed">>>>)>>,
      <<EslintLine(1, 1), TestsLine(<<<<Huge, "passed">>>>), TextLine("Stylelint")>>,
      <<CheckLine("TICK", Bare("testA")), EslintLine(1, 1)>> }

\* try_parsers(log_content, names) called by itself
CallDirect(log, names) ==
    /\ pc = "idle"
    /\ log_content' = log
    /\ invoked' = <<>>
    /\ parser_result' = None
    /\ CallTryParsers(names, "direct")
    /\ UNCHANGED <<metadata, is_python_repo, test_framework, language, parsers_to_try,
                   parse_result, exit_code, saved, history>>
    /\ UNCHANGED <<strategyVars, outsideVars>>

CallDirectFrom(logs, names) ==
    /\ pc = "idle"
    /\ \E log \in logs, list \in SeqsUpTo(names, MaxNames) : CallDirect(log, list)

\* the caller has the value try_parsers returned
DirectReturn ==
    /\ pc = "tried"
    /\ phase = "direct"
    /\ pc' = "idle"
    /\ UNCHANGED <<metadata, is_python_repo, log_content, test_framework, language,
                   parsers_to_try, phase, parser_names, queue, combined_results,
                   successful_parsers, parser_result, parse_result, invoked, exit_code,
                   saved, history>>
    /\ UNCHANGED <<strategyVars, outsideVars>>

\* -------------------------------------- the pipeline of three stages
\* main of generate_profile.py calls run_pipeline: the results are created and
\* the command of stage 1 is started
PipelineStart(args) ==
    /\ pipeline_pc = "idle"
    /\ pipeline_args' = args
    /\ pipeline_results' = NoStageRun
    /\ stage_runs' = <<>>
    /\ stage_cmd' = StageCmd(1, args)
    /\ profile_code' = "None"
    /\ pipeline_pc' = "stage"
    /\ UNCHANGED <<selectorVars, strategyVars, concurrentVars, failure_threshold, save_error>>

\* run_pipeline_command returns for the stage that runs: its flag is set, and
\* run_pipeline returns or starts the next stage
StageEnds ==
    /\ pipeline_pc = "stage"
    /\ \E outcome \in Outcomes :
          LET n == Len(stage_runs) + 1
              returncode == ReturnCode(outcome)
          IN /\ pipeline_results' = [pipeline_results EXCEPT ![n] = (returncode = 0)]
             /\ stage_runs' = Append(stage_runs, <<n, returncode>>)
             /\ IF StageStops(n, returncode) \/ n = 3
                THEN /\ pipeline_pc' = "returned"
                     /\ stage_cmd' = <<>>
                ELSE /\ pipeline_pc' = "stage"
                     /\ stage_cmd' = StageCmd(n + 1, pipeline_args)
    /\ UNCHANGED <<pipeline_args, profile_code>>
    /\ UNCHANGED <<selectorVars, strategyVars, concurrentVars, failure_threshold, save_error>>

\* generate_profile_from_pipeline: None unless the three stages succeeded and
\* repo_metadata.json can be loaded
GenerateProfile ==
    /\ pipeline_pc = "returned"
    /\ \E metadata_loaded \in BOOLEAN :
          profile_code' = IF StagesSucceeded(pipeline_results) /\ metadata_loaded
                          THEN "profile" ELSE "None"
    /\ pipeline_pc' = "done"
    /\ UNCHANGED <<pipeline_args, stage_cmd, stage_runs, pipeline_results>>
    /\ UNCHANGED <<selectorVars, strategyVars, concurrentVars, failure_threshold, save_error>>

\* the process has exited; the next run starts from nothing
PipelineExit ==
    /\ pipeline_pc = "done"
    /\ pipeline_pc' = "idle"
    /\ pipeline_args' = NoArgs
    /\ stage_cmd' = <<>>
    /\ stage_runs' = <<>>
    /\ pipeline_results' = NoStageRun
    /\ profile_code' = "None"
    /\ UNCHANGED <<selectorVars, strategyVars, concurrentVars, failure_threshold, save_error>>

\* --------------------------------------- a parser applied on its own
Strategies == {"jest", "twist", "cppunit", "eslint", "stylelint", "cspell", "maven", "junit"}

StrategyFunc(name, log) ==
    CASE name = "twist" -> parse_log_twist(log)
      [] name = "cppunit" -> parse_log_cppunit(log)
      [] name = "ctest" -> parse_log_ctest(log)
      [] name = "catch2" -> parse_log_catch2(log)
      [] name = "vitest" -> parse_log_vitest(log)
      [] name = "gtest" -> parse_log_gtest(log)
      [] name = "bazel_custom" -> parse_log_bazel_custom(log)
      [] name = "testng_ant" -> parse_log_testng_ant(log)
      [] OTHER -> ParserFunc(name, log)

\* the call S(log)
ApplyStrategy(name, log) ==
    /\ strategy = ""
    /\ strategy' = name
    /\ strategy_log' = log
    /\ strategy_out' = StrategyFunc(name, log)
    /\ UNCHANGED <<selectorVars, outsideVars>>

\* a call on one of the given <<name, log>>
ApplyFrom(inputs) ==
    /\ strategy = ""
    /\ \E in \in inputs : ApplyStrategy(in[1], in[2])

\* the caller drops what the call returned
StrategyReturn ==
    /\ strategy # ""
    /\ strategy' = ""
    /\ strategy_log' = <<>>
    /\ strategy_out' = Returned(EmptyMap)
    /\ UNCHANGED <<selectorVars, outsideVars>>

\* the lines of the logs a parser is applied to on its own: the shapes the
\* patterns of the parsers read, cut short, prefixed, and in another order
StrategyLines ==
    { CheckLine("TICK", Bare("testA")),
      CheckLine("CROSS", Bare("stylelint")),
      CheckLine("CIRCLE", Bare("testB")),
      WordLine("PASS", Bare("pkg.Test")),
      WordLine("FAIL", Bare("testA")),
      TestsLine(<<>>),
      TestsLine(<<<<1, "passed">>>>),
      TestsLine(<<<<2, "passed">>, <<1, "skipped">>>>),
      TestsLine(<<<<1, "passed">>, <<1, "failed">>, <<1, "skipped">>, <<3, "total">>>>),
      TestsLine(<<<<1, "failed">>, <<1, "passed">>>>),
      TestsLine(<<<<Huge, "passed">>>>),
      Line("", "tests", "ansi", NoId, <<<<2, "passed">>>>),
      EslintLine(1, 1),
      EslintLine(1, 0),
      EslintLine(1, Huge),
      Line("", "eslint", "", NoId, <<<<1, "problems">>>>),
      TextLine("Stylelint"),
      TextLine("ERROR"),
      TextLine("npm info ok"),
      TextLine("All matched files use Prettier code style!"),
      TextLine("Checking formatting..."),
      TextLine("npm run suggest:format"),
      TextLine("test:build"),
      CspellLine(1, 0),
      CspellLine(1, 2),
      RunningLine("[INFO]", "pkg.Test"),
      RunningLine("[junit]", "pkg.Test"),
      TestsRunLine("", 2, 1, 0, 0, ""),
      TestsRunLine("[INFO]", 2, 0, 0, 1, "pkg.Test"),
      Line("", "testsrun", "", NoId, <<<<2, "run">>>>),
      MethodLine("testX", ""),
      MethodLine("testY", "FAILURE"),
      JMethodLine("pkg.Test", "testZ", "ERROR"),
      GradleLine("pkg.Test", "testW", "PASSED"),
      CppFailLine(TRUE, "Suite::t1"),
      CppFailLine(FALSE, "Suite::t2"),
      CppOkLine(2),
      CppRunLine(2, 1, 0),
      CppThereLine(1, "failures"),
      CppThereLine(1, "errors"),
      TextLine("!!!FAILURES!!!"),
      TextLine("!!!"),
      TextLine("noise") }

StrategyLogs == SeqsUpTo(StrategyLines, MaxStrategyLogLen)

\* the per-test lines of a Jest log; one test bears a name the supplement makes
PerTestLines ==
    { CheckLine(sym, id) :
        sym \in {"TICK", "CROSS", "CIRCLE"},
        id \in {Bare("testA"), Bare("testB"), Numbered("jest_test_", 1)} }
    \cup { WordLine("PASS", Bare("testA")), WordLine("FAIL", Bare("testB")) }

\* "Tests: P passed[, F failed][, K skipped], T total": a count of zero is
\* written or left out; absent is the mark of an item left out
Absent == MaxCount + 1

SummaryItems(p, f, k) ==
    <<<<p, "passed">>>>
        \o (IF f = Absent THEN <<>> ELSE <<<<f, "failed">>>>)
        \o (IF k = Absent THEN <<>> ELSE <<<<k, "skipped">>>>)
        \o <<<<p + (IF f = Absent THEN 0 ELSE f) + (IF k = Absent THEN 0 ELSE k), "total">>>>

SummaryLines ==
    { TestsLine(SummaryItems(p, f, k)) :
        p \in 0..MaxCount, f \in (1..MaxCount) \cup {0, Absent}, k \in (1..MaxCount) \cup {0, Absent} }

\* per-test lines, then one summary line
SummaryLogs ==
    { Append(tests, l) : tests \in SeqsUpTo(PerTestLines, MaxTests), l \in SummaryLines }

StrategyInputs ==
    (Strategies \X StrategyLogs) \cup ({"jest", "twist"} \X SummaryLogs)

\* the inputs of the repeated runs
RepeatInputs ==
    { Input(Metadata("Jest", "JavaScript"), FALSE, <<CheckLine("TICK", Bare("testA"))>>),
      Input(Metadata("nosuch", "cobol"), FALSE, <<CheckLine("CROSS", Bare("stylelint"))>>),
      Input(Metadata("pytest", "java"), FALSE, <<TextLine("noise")>>),
      Input(Metadata("eslint", "java"), TRUE, <<EslintLine(1, 1), ToolLine("pytest", "testA", FAILED)>>),
      Input(Metadata("", "JavaScript"), FALSE, <<>>) }

\* the lines of the JavaScript scenarios: jest per-test lines, with and without
\* a duration, named after another tool or after a summary, lint and summary lines
ScenarioLines ==
    { CheckLine("TICK", Bare("testA")),
      CheckLine("CROSS", Bare("testB")),
      CheckLine("CIRCLE", Bare("testC")),
      TimedCheckLine("TICK", Bare("testD")),
      CheckLine("CROSS", Bare("stylelint")),
      SummaryNamedCheckLine("TICK", 2),
      EslintLine(1, 1) }
    \cup { TestsLine(<<<<n, "passed">>, <<n, "total">>>>) : n \in 0..MaxCount }

ScenarioLogs == SeqsUpTo(ScenarioLines, MaxScenarioLen)

\* hints that select the JavaScript strategies, jest first
JavaScriptInputs ==
    { Input(Metadata(fw, "JavaScript"), FALSE, log) : fw \in {"Jest", ""}, log \in ScenarioLogs }

\* the lines of ctest logs: per-test lines, the section of failed tests, the
\* aggregate line with every pair of counts, one of them too long for int()
CtestLines ==
    { CtestLine(Bare("testA"), "Passed"),
      CtestLine(Bare("testB"), "Failed"),
      TextLine("The following tests FAILED:"),
      CtestItemLine(Bare("testB")),
      CtestSummaryLine(0, 1, 1),
      CtestSummaryLine(100, 0, Huge),
      TextLine("noise") }
    \cup { CtestSummaryLine(100, f, t) : f, t \in 0..MaxCount }

\* the lines of vitest logs: file lines, lines of one test, and the summary
\* line in the shapes vitest prints: failed and passed, passed alone, failed
\* alone, each with or without the skipped count
VitestLines ==
    { VitestFileLine("TICK", "a.test.ts", MaxCount, NoGroup),
      VitestFileLine("XMARK", "b.test.ts", 1, NoGroup),
      VitestFileLine("TICK", "c.test.ts", MaxCount, 1),
      VitestCaseLine("TICK", "adds"),
      VitestCaseLine("XMARK", "subs"),
      CheckLine("TICK", Bare("testA")),
      TextLine("noise") }
    \cup { VitestTestsLine(<<<<f, "failed">>, <<p, "passed">>>>) : f \in 1..MaxCount, p \in 0..MaxCount + 1 }
    \cup { VitestTestsLine(<<<<p, "passed">>>>) : p \in 1..MaxCount + 1 }
    \cup { VitestTestsLine(<<<<f, "failed">>>>) : f \in 1..MaxCount }
    \cup { VitestTestsLine(<<<<1, "failed">>, <<1, "passed">>, <<1, "skipped">>>>),
           VitestTestsLine(<<<<1, "failed">>, <<1, "skipped">>>>),
           VitestTestsLine(<<<<1, "passed">>, <<1, "skipped">>>>) }

\* the lines of gtest logs: starts and results of two tests, a result the
\* failed pattern does not take, and the summary lines
GtestLines ==
    { GtestRunLine(Bare("S.a")),
      GtestRunLine(Bare("S.b")),
      GtestResultLine("OK", Bare("S.a")),
      GtestResultLine("FAILED", Bare("S.a")),
      GtestResultLine("FAILED", Bare("S.b")),
      GtestResultLine("SKIPPED", Bare("S.b")),
      GtestParamLine("FAILED", Bare("S.b")),
      GtestTotalLine(MaxCount),
      GtestCountLine("PASSED", 1),
      GtestCountLine("FAILED", 1),
      TextLine("noise") }

\* the fragments of bazel logs: well-formed blocks with every marker, a
\* block with a case left open, a block cut before its end, the summary line
BazelLines ==
    { XmlBlock("ok", <<<<"A", "t1", {}>>, <<"A", "t2", {"failure"}>>>>),
      XmlBlock("ok", <<<<"B", "t3", {"skipped"}>>>>),
      XmlBlock("ok", <<<<"B", "t4", {"error"}>>>>),
      XmlBlock("ok", <<<<"C", "t5", {"failure", "skipped"}>>>>),
      XmlBlock("mismatched", <<<<"X", "open", {}>>>>),
      XmlBlock("truncated", <<<<"X", "cut", {}>>>>),
      BazelSummaryLine("PASSED"),
      BazelSummaryLine("FAILED"),
      TextLine("noise") }

\* the lines of testng logs: the three statuses and words the pattern leaves out
TestngLogLines ==
    { TestngLine("PASSED", "testA"),
      TestngLine("FAILED", "testA"),
      TestngLine("FAILED", "testB"),
      TestngLine("SKIPPED", "testC"),
      TestngLine("ERROR", "testD"),
      TestngLine("passed", "testE"),
      TextLine("noise") }

\* each parser of a test framework on the logs of its own lines
FrameworkInputs ==
    ({"ctest"} \X SeqsUpTo(CtestLines, MaxStrategyLogLen))
    \cup ({"vitest"} \X SeqsUpTo(VitestLines, MaxStrategyLogLen))
    \cup ({"gtest"} \X SeqsUpTo(GtestLines, MaxStrategyLogLen + 1))
    \cup ({"bazel_custom"} \X SeqsUpTo(BazelLines, MaxStrategyLogLen + 1))
    \cup ({"testng_ant"} \X SeqsUpTo(TestngLogLines, MaxStrategyLogLen))

\* every parser on its own on the logs of one line, and the framework parsers
CountInputs == (Strategies \X SeqsUpTo(StrategyLines, 1)) \cup FrameworkInputs

\* ------------------------------------------------- whole reports
\* the names of the tests of a report
ReportNames == {"testA", "testB"}

\* ctest: lines of tests, the aggregate line, and the section of failed tests
\* before or after it; the aggregate declares more tests than the lines name
CtestTestLines == {CtestLine(Bare(n), w) : n \in ReportNames, w \in {"Passed", "Failed"}}
CtestHeader == TextLine("The following tests FAILED:")
CtestSections ==
    { <<>>,
      <<CtestHeader, CtestItemLine(Bare("testB"))>>,
      <<CtestHeader, CtestItemLine(Bare("testA")), CtestItemLine(Bare("testB"))>> }
CtestAggregate == CtestSummaryLine(50, 1, MaxReportTests + 1)
CtestReports ==
    { tests \o section \o <<CtestAggregate>> :
        tests \in SeqsUpTo(CtestTestLines, MaxReportTests) \ {<<>>}, section \in CtestSections }
    \cup { tests \o <<CtestAggregate>> \o section :
        tests \in SeqsUpTo(CtestTestLines, MaxReportTests) \ {<<>>}, section \in CtestSections }

\* each parser on the whole reports of its tool
\* logs that are one aggregate line, alone or after a line of other text
AggregateLines ==
    { CatchSummaryLine(t, p, f) : t, p, f \in 0..MaxCount }
    \cup { CatchAllPassedLine(n) : n \in 0..MaxCount }
    \cup { CppOkLine(n) : n \in 0..MaxCount }
AggregateLogs ==
    { <<l>> : l \in AggregateLines } \cup { <<TextLine("noise"), l>> : l \in AggregateLines }

\* catch2 XML: elements with a result "true" or "false" or without one
CatchElements ==
    { <<CatchOpenLine(n)>> \o r \o <<CatchCloseLine>> :
        n \in ReportNames,
        r \in {<<>>, <<CatchResultLine("true")>>, <<CatchResultLine("false")>>} }
RECURSIVE CatchXmlLogs(_)
CatchXmlLogs(n) ==
    IF n = 0 THEN {<<>>}
    ELSE LET shorter == CatchXmlLogs(n - 1)
         IN shorter \cup {log \o e : log \in shorter, e \in CatchElements}

\* jest: logs of checkmark lines, a name on one line or on several
JestCheckLines == {CheckLine(sym, Bare(n)) : sym \in {"TICK", "CROSS", "CIRCLE"}, n \in ReportNames}
JestCheckLogs == SeqsUpTo(JestCheckLines, MaxReportTests)

\* maven and junit: per class "Running C" and its summary with F + E + S <= N,
\* then the summary of the build, which names no class
ClassCounts ==
    {c \in (0..MaxCount) \X (0..MaxCount) \X (0..MaxCount) \X (0..MaxCount) :
        c[2] + c[3] + c[4] <= c[1]}
ClassLines(cls, c) == <<RunningLine("", cls), TestsRunLine("", c[1], c[2], c[3], c[4], "")>>
BuildReport(classes) ==
    LET Sum(k) == IF Len(classes) = 1 THEN classes[1][k] ELSE classes[1][k] + classes[2][k]
    IN ClassLines("pkg.A", classes[1])
       \o (IF Len(classes) = 2 THEN ClassLines("pkg.B", classes[2]) ELSE <<>>)
       \o <<TestsRunLine("", Sum(1), Sum(2), Sum(3), Sum(4), "")>>
BuildReports ==
    {BuildReport(<<a>>) : a \in ClassCounts} \cup {BuildReport(<<a, b>>) : a, b \in ClassCounts}

ReportInputs ==
    ({"ctest"} \X CtestReports)
    \cup ({"maven", "junit"} \X BuildReports)
    \cup ({"jest"} \X JestCheckLogs)
    \cup ({"catch2"} \X CatchXmlLogs(MaxReportTests))
    \cup ({"catch2", "cppunit"} \X AggregateLogs)

\* ------------------------------------------------ the specifications
\* the pipeline's run of verify_testing.py, one process per run
Next ==
    \/ StartFrom(SelectorInputs)
    \/ CallHinted
    \/ SkipHinted
    \/ TryParser
    \/ TryReturn
    \/ AfterHinted
    \/ CallFallback
    \/ AfterFallback
    \/ Main(FALSE)
    \/ NewProcess

Spec == Init /\ [][Next]_vars

\* parse_test_output called again and again, in one process or in a new one
NextRepeat ==
    \/ StartFrom(RepeatInputs)
    \/ CallHinted
    \/ SkipHinted
    \/ TryParser
    \/ TryReturn
    \/ AfterHinted
    \/ CallFallback
    \/ AfterFallback
    \/ Main(TRUE)
    \/ CallAgain
    \/ NewProcess

SpecRepeat == Init /\ [][NextRepeat]_vars

\* runs of verify_testing.py on JavaScript repositories
NextJavaScript ==
    \/ StartFrom(JavaScriptInputs)
    \/ CallHinted
    \/ TryParser
    \/ TryReturn
    \/ AfterHinted
    \/ CallFallback
    \/ AfterFallback
    \/ Main(FALSE)
    \/ NewProcess

SpecJavaScript == Init /\ [][NextJavaScript]_vars

\* the parsers of the test frameworks called one at a time on a log
NextFramework ==
    \/ ApplyFrom(FrameworkInputs)
    \/ StrategyReturn

SpecFramework == Init /\ [][NextFramework]_vars

\* the parsers called on their own and the runs of verify_testing.py, one
\* call or run at a time
NextCounts ==
    \/ pc = "idle" /\ ApplyFrom(CountInputs)
    \/ StrategyReturn
    \/ strategy = "" /\ StartFrom(RepeatInputs \cup JavaScriptInputs)
    \/ CallHinted
    \/ SkipHinted
    \/ TryParser
    \/ TryReturn
    \/ AfterHinted
    \/ CallFallback
    \/ AfterFallback
    \/ Main(FALSE)
    \/ NewProcess

SpecCounts == Init /\ [][NextCounts]_vars

\* the parsers called one at a time on a log
\* calls of parse_test_output interleaved at the steps of their loops
NextConcurrent ==
    \/ ConcStartFrom(ConcurrentInputs)
    \/ \E c \in Calls : ConcTryParser(c)
    \/ \E c \in Calls : ConcTryReturn(c)
    \/ \E c \in Calls : ConcFallback(c)
    \/ \E c \in Calls : ConcFinish(c)

SpecConcurrent == Init /\ [][NextConcurrent]_vars

\* a parser applied to a whole report of its tool
NextReports ==
    \/ ApplyFrom(ReportInputs)
    \/ StrategyReturn

SpecReports == Init /\ [][NextReports]_vars

\* try_parsers called with any list of names
NextTryParsers ==
    \/ CallDirectFrom(DirectLogs, DirectNames)
    \/ TryParser
    \/ TryReturn
    \/ DirectReturn

SpecTryParsers == Init /\ [][NextTryParsers]_vars

\* runs of generate_profile.py
NextPipeline ==
    \/ \E args \in PipelineArgs : PipelineStart(args)
    \/ StageEnds
    \/ GenerateProfile
    \/ PipelineExit

SpecPipeline == Init /\ [][NextPipeline]_vars

NextStrategy ==
    \/ ApplyFrom(StrategyInputs)
    \/ StrategyReturn

SpecStrategy == Init /\ [][NextStrategy]_vars

\* ------------------------------------------- what the claims speak of
\* the run reached the parser selection: metadata found, log not empty
SelectionReached == pc # "idle" /\ metadata.found /\ log_content # <<>>

\* the parser registered as name returns a non-empty map on the log of the run
Gives(name) ==
    /\ name \in Registered
    /\ ~ParserFunc(name, log_content).raised
    /\ DOMAIN ParserFunc(name, log_content).map # {}

OutMap(name) == ParserFunc(name, log_content).map

NoDuplicates(seq) == \A i, j \in 1..Len(seq) : seq[i] = seq[j] => i = j

IsPrefix(a, b) == Len(a) <= Len(b) /\ \A i \in 1..Len(a) : a[i] = b[i]

\* the names invoked in a phase, in the order of the calls
InvokedIn(ph) ==
    LET InPhase(c) == c[1] = ph
        calls == SelectSeq(invoked, InPhase)
    IN [i \in 1..Len(calls) |-> calls[i][2]]

InvokedNames == [i \in 1..Len(invoked) |-> invoked[i][2]]

\* the last name of seq whose parser produced key
LastProducer(seq, key) ==
    seq[CHOOSE i \in 1..Len(seq) :
            /\ Gives(seq[i]) /\ key \in DOMAIN OutMap(seq[i])
            /\ \A j \in (i + 1)..Len(seq) : ~(Gives(seq[j]) /\ key \in DOMAIN OutMap(seq[j]))]

\* some key is given different statuses by two of the names
Collides(seq) ==
    \E i, j \in 1..Len(seq) :
        /\ Gives(seq[i]) /\ Gives(seq[j])
        /\ \E key \in DOMAIN OutMap(seq[i]) \cap DOMAIN OutMap(seq[j]) :
              OutMap(seq[i])[key] # OutMap(seq[j])[key]

\* ---------------------------------------------------------------- C1
\* C1: the candidate list is the framework hint, first, exactly when it is non-empty
\* and registered, then the strategies of the language's table in table order
\* without those already listed; no name occurs twice; the list is empty when
\* neither hint is registered.
C1_CandidateList ==
    SelectionReached =>
        LET fwRegistered == test_framework # "" /\ test_framework \in Registered
            table == IF language \in Languages THEN LANGUAGE_FRAMEWORKS[language] ELSE <<>>
            NotHint(x) == ~(fwRegistered /\ x = test_framework)
            expected == (IF fwRegistered THEN <<test_framework>> ELSE <<>>)
                            \o SelectSeq(table, NotHint)
        IN /\ parsers_to_try = expected
           /\ NoDuplicates(parsers_to_try)
           /\ InSeq(test_framework, parsers_to_try) <=> fwRegistered
           /\ fwRegistered => parsers_to_try[1] = test_framework
           /\ (~fwRegistered /\ language \notin Languages) => parsers_to_try = <<>>

\* a registered hint that also stands in the middle of its language's table
C1_Witness ==
    /\ pc = "selected"
    /\ test_framework = "eslint"
    /\ language = "javascript"
    /\ Len(parsers_to_try) = 7

\* ---------------------------------------------------------------- C2
\* C2: when try_parsers returns, the keys of the merged map are the union of the
\* keys of the candidates that returned a non-empty map, a key several of them
\* produced holds the value of the last of them in list order, and the names
\* reported are those candidates in candidate order, joined with "+".
C2_Merge ==
    pc = "tried" =>
        LET givers == SelectSeq(parser_names, Gives)
            keys == UNION {DOMAIN OutMap(givers[i]) : i \in 1..Len(givers)}
        IN /\ DOMAIN combined_results = keys
           /\ \A key \in keys :
                 combined_results[key] = OutMap(LastProducer(parser_names, key))[key]
           /\ successful_parsers = givers
           /\ parser_result.ok <=> givers # <<>>
           /\ parser_result.ok =>
                 /\ parser_result.result = combined_results
                 /\ parser_result.parser_name = JoinPlus(givers)

\* two candidates gave the same key different statuses
C2_Witness ==
    /\ pc = "tried"
    /\ Len(successful_parsers) >= 2
    /\ Collides(parser_names)

\* ---------------------------------------------------------------- C3
\* C3: the fallback sweep is entered exactly when the hinted candidates gave
\* nothing (or there were none); it tries the registered strategies not in the
\* candidate list, in registry order; no name is tried twice in a run; when a
\* hinted candidate gives an entry no strategy outside the list is invoked.
C3_Fallback ==
    LET hintedEmpty == \A i \in 1..Len(parsers_to_try) : ~Gives(parsers_to_try[i])
        Outside(p) == ~InSeq(p, parsers_to_try)
        sweep == SelectSeq(PARSERS, Outside)
        swept == InvokedIn("fallback")
    IN /\ NoDuplicates(InvokedNames)
       /\ IsPrefix(InvokedIn("hinted"), parsers_to_try)
       /\ IsPrefix(swept, sweep)
       /\ swept # <<>> => hintedEmpty /\ InvokedIn("hinted") = parsers_to_try
       /\ (\E i \in 1..Len(invoked) : ~InSeq(invoked[i][2], parsers_to_try)) => hintedEmpty
       /\ (pc \in {"returned", "done"} /\ SelectionReached) =>
             /\ swept # <<>> <=> hintedEmpty
             /\ swept # <<>> => swept = sweep
             /\ InvokedIn("hinted") = parsers_to_try

\* a run in which both phases ran
C3_Witness ==
    /\ pc = "returned"
    /\ InvokedIn("hinted") # <<>>
    /\ InvokedIn("fallback") # <<>>
    /\ parse_result.ok

\* ---------------------------------------------------------------- C4
\* neither hint names a registered strategy, and the run has returned
UnhintedReturn ==
    /\ pc = "returned"
    /\ SelectionReached
    /\ test_framework \notin Registered
    /\ language \notin Languages

\* C4 as stated: with unregistered hints, whenever some registered strategy C
\* gives an entry for the log, the result holds every key C produced with C's
\* status, and the reported names include C.
C4_Original ==
    UnhintedReturn =>
        \A i \in 1..Len(PARSERS) :
            Gives(PARSERS[i]) =>
                /\ parse_result.ok
                /\ \A key \in DOMAIN OutMap(PARSERS[i]) :
                      /\ key \in DOMAIN parse_result.result
                      /\ parse_result.result[key] = OutMap(PARSERS[i])[key]

\* C4: with unregistered hints, whenever some registered strategy C gives an
\* entry for the log, the selector returns a result, every key C produced is
\* in it with the status of the last strategy in registry order that produced
\* the key (C's own when no later one did), and the names reported are all
\* the strategies that gave an entry, in registry order, C among them.
C4_FallbackContains ==
    UnhintedReturn =>
        LET givers == SelectSeq(PARSERS, Gives)
        IN /\ parse_result.ok <=> givers # <<>>
           /\ \A i \in 1..Len(givers) :
                 \A key \in DOMAIN OutMap(givers[i]) :
                     /\ key \in DOMAIN parse_result.result
                     /\ parse_result.result[key] = OutMap(LastProducer(PARSERS, key))[key]
                     /\ (\A j \in (i + 1)..Len(givers) : key \notin DOMAIN OutMap(givers[j]))
                            => parse_result.result[key] = OutMap(givers[i])[key]
           /\ parse_result.ok => parse_result.parser_name = JoinPlus(givers)

\* the sweep merged two strategies that disagree on a key
C4_Witness ==
    /\ UnhintedReturn
    /\ parse_result.ok
    /\ Collides(PARSERS)

\* ---------------------------------------------------------------- C5
\* C5: in every result the selector returns, each key of the map was produced
\* by at least one of the named strategies on the log, each named strategy
\* returned a non-empty map on the log, and a non-empty map names at least
\* one strategy.
C5_Result ==
    (pc \in {"returned", "done"} /\ parse_result.ok) =>
        LET names == successful_parsers
        IN  /\ parse_result.parser_name = JoinPlus(names)
            /\ \A i \in 1..Len(names) : Gives(names[i])
            /\ \A key \in DOMAIN parse_result.result :
                  \E i \in 1..Len(names) : key \in DOMAIN OutMap(names[i])
            /\ DOMAIN parse_result.result # {} => names # <<>>
            /\ DOMAIN parse_result.result # {}

\* a result that names two strategies
C5_Witness ==
    /\ pc = "returned"
    /\ parse_result.ok
    /\ Len(successful_parsers) >= 2
    /\ Cardinality(DOMAIN parse_result.result) >= 2

\* ---------------------------------------------------------------- C6
\* C6: the selector reports total failure (no map, no names) exactly when every
\* strategy it tried gave nothing (an empty map, or an exception try_parsers
\* caught), and then it has tried every registered strategy; an empty log
\* always gives total failure.
C6_TotalFailure ==
    pc \in {"returned", "done"} =>
        /\ SelectionReached =>
              /\ ~parse_result.ok <=> \A i \in 1..Len(invoked) : ~Gives(invoked[i][2])
              /\ ~parse_result.ok => {invoked[i][2] : i \in 1..Len(invoked)} = Registered
        /\ ~parse_result.ok => parse_result = None
        /\ log_content = <<>> => ~parse_result.ok /\ invoked = <<>>

\* the hinted candidates and then the whole sweep gave nothing
C6_Witness ==
    /\ pc = "returned"
    /\ ~parse_result.ok
    /\ log_content # <<>>
    /\ InvokedIn("hinted") # <<>>
    /\ Len(invoked) = Len(PARSERS)

\* ---------------------------------------------------------------- C7
\* the line matches one of the patterns the parser reads
Recognizes(name, l) ==
    CASE name = "jest" -> JestCheckMatch(l) \/ JestWordMatch(l) \/ SummaryLineMatch(l)
      [] name = "twist" -> TwistSummaryMatch(l)
      [] name = "cppunit" ->
            \/ CppFailureMatch(l) \/ CppSectionMatch(l) \/ CppOkMatch(l)
            \/ CppRunMatch(l) \/ CppThereFailuresMatch(l) \/ CppThereErrorsMatch(l)
      [] name = "eslint" -> EslintMatch(l) \/ Has(l, "npm info ok") \/ Has(l, "exit 0")
      [] name = "stylelint" -> HasLower(l, "stylelint")
      [] name = "cspell" ->
            \/ CspellMatch(l)
            \/ Has(l, "All matched files use Prettier code style!")
            \/ Has(l, "Checking formatting...")
            \/ Has(l, "test:build")
      [] name = "maven" ->
            \/ RunningMatch(MavenClean(l)) \/ TestsRunMatch(MavenClean(l))
            \/ MavenMethodMatch(MavenClean(l)) \/ MavenJunitMatch(l) \/ GradleMatch(l)
      [] name = "junit" ->
            \/ RunningMatch(JunitClean(l)) \/ TestsRunMatch(JunitClean(l))
            \/ JunitMethodMatch(JunitClean(l))
      [] OTHER -> FALSE

\* C7: a parser applied to any log (empty, cut short, a marker without its
\* body, digits without end) returns a map and does not raise, and the map is
\* empty when no line of the log matches one of its patterns.
C7_NeverRaises ==
    strategy # "" =>
        /\ ~strategy_out.raised
        /\ (\A i \in 1..Len(strategy_log) : ~Recognizes(strategy, strategy_log[i]))
              => strategy_out.map = EmptyMap

\* ---------------------------------------------------------------- C8
\* C8: a run of the selector on an input gives the map and the names its first
\* run on that input gave, whatever ran before it and whether or not the
\* process is the same.
C8_Deterministic ==
    (pc = "done" /\ CurrentInput \in DOMAIN history) =>
        history[CurrentInput].result = parse_result

\* an input run again in the same process after a run of another input
C8_Witness ==
    /\ pc = "done"
    /\ CurrentInput \in DOMAIN history
    /\ history[CurrentInput].runs >= 2
    /\ parse_result.ok
    /\ parse_result.parser_name = "jest+stylelint"
    /\ \E in \in DOMAIN history : in # CurrentInput /\ history[in].result.ok
    /\ saved.written /\ saved.parser = "jest"

\* ---------------------------------------------------------------- C9
\* the count a summary line declares for a word, 0 when it does not name it
Declared(l, word) ==
    IF \E i \in 1..Len(l.items) : l.items[i][2] = word
    THEN l.items[CHOOSE i \in 1..Len(l.items) : l.items[i][2] = word][1]
    ELSE 0

\* the names the supplement of a parser makes
SynthStem(name, status) ==
    IF name = "jest"
    THEN (IF status = PASSED THEN "jest_test_"
          ELSE IF status = FAILED THEN "jest_failed_test_" ELSE "jest_skipped_test_")
    ELSE (IF status = PASSED THEN "twist_passed_"
          ELSE IF status = FAILED THEN "twist_failed_" ELSE "twist_skipped_")

SynthNames(name, status, n) == {Numbered(SynthStem(name, status), i) : i \in 1..n}

\* C9: parse_log_jest and parse_log_twist on a log that is one summary line
\* declaring P passed, F failed, K skipped return P entries PASSED, F FAILED,
\* K SKIPPED, P+F+K entries in all, every name a synthesized one.
C9_SummaryOnly ==
    (strategy \in {"jest", "twist"} /\ Len(strategy_log) = 1 /\ strategy_log[1] \in SummaryLines) =>
        LET l == strategy_log[1]
            P == Declared(l, "passed")
            F == Declared(l, "failed")
            K == Declared(l, "skipped")
            m == strategy_out.map
        IN /\ ~strategy_out.raised
           /\ CountStatus(m, PASSED) = P
           /\ CountStatus(m, FAILED) = F
           /\ CountStatus(m, SKIPPED) = K
           /\ Cardinality(DOMAIN m) = P + F + K
           /\ DOMAIN m = SynthNames(strategy, PASSED, P) \cup SynthNames(strategy, FAILED, F)
                            \cup SynthNames(strategy, SKIPPED, K)

\* a summary line alone that declares all three counts, unequal
C9_Witness ==
    /\ strategy = "twist"
    /\ Len(strategy_log) = 1
    /\ strategy_log[1] \in SummaryLines
    /\ CountStatus(strategy_out.map, PASSED) = MaxCount
    /\ CountStatus(strategy_out.map, FAILED) = 1
    /\ CountStatus(strategy_out.map, SKIPPED) = 0
    /\ Declared(strategy_log[1], "failed") = 1

\* --------------------------------------------------------------- C10
\* per-test lines, then one summary line, given to parse_log_jest
JestReconciled ==
    /\ strategy = "jest"
    /\ Len(strategy_log) >= 2
    /\ strategy_log[Len(strategy_log)] \in SummaryLines
    /\ \A i \in 1..(Len(strategy_log) - 1) : strategy_log[i] \in PerTestLines

\* the entries the per-test lines give
JestParsed(log) ==
    LET checks == JestCheckmarks(log, EmptyMap)
    IN IF DOMAIN checks = {} THEN JestWords(log, EmptyMap) ELSE checks

MaxOf(a, b) == IF a >= b THEN a ELSE b

StatusWord(status) ==
    IF status = PASSED THEN "passed" ELSE IF status = FAILED THEN "failed" ELSE "skipped"

CheckmarkLog ==
    /\ pc = "returned"
    /\ SelectionReached
    /\ \A i \in 1..Len(log_content) : JestCheckMatch(log_content[i])
    /\ \A i, j \in 1..Len(log_content) : log_content[i].id = log_content[j].id => i = j

\* a name of the log holds the text of a summary line
SummaryInName == \E i \in 1..Len(log_content) : SummaryLineMatch(log_content[i])

CtestAggregateOnly ==
    /\ strategy = "ctest"
    /\ Len(strategy_log) = 1
    /\ CtestSummaryMatch(strategy_log[1])
    /\ strategy_log[1].items[3][1] >= 0
    /\ strategy_log[1].items[2][1] >= 0
    /\ strategy_log[1].items[2][1] <= strategy_log[1].items[3][1]

JestAllPassedLine(n) == TestsLine(<<<<n, "passed">>, <<n, "total">>>>)

\* the log is made of an eslint summary line reporting an error and of the
\* jest summary line of n tests, in any order, and the hints select JavaScript
LintAndSummary(n) ==
    /\ pc = "returned"
    /\ SelectionReached
    /\ {log_content[i] : i \in 1..Len(log_content)} = {EslintLine(1, 1), JestAllPassedLine(n)}

\* C13 as stated: for every N the merged result is one lint entry FAILED and N
\* synthesized test entries PASSED, and two strategy names are reported.
C13_Original ==
    \A n \in 0..MaxCount :
        LintAndSummary(n) =>
            /\ parse_result.ok
            /\ parse_result.result =
                 PutNumbered(Put(EmptyMap, Bare("eslint_check"), FAILED), "jest_test_", n, PASSED)
            /\ Len(successful_parsers) = 2

\* C13: for N >= 1 the merged result is exactly the lint entry eslint_check
\* FAILED and the N entries jest_test_1..jest_test_N PASSED, reported under
\* the two names jest and eslint; for N = 0 the result is the lint entry
\* alone, reported under the name eslint alone.
C13_LintAndTests ==
    \A n \in 0..MaxCount :
        LintAndSummary(n) =>
            /\ parse_result.ok
            /\ parse_result.result =
                 PutNumbered(Put(EmptyMap, Bare("eslint_check"), FAILED), "jest_test_", n, PASSED)
            /\ CountStatus(parse_result.result, FAILED) = 1
            /\ CountStatus(parse_result.result, PASSED) = n
            /\ n >= 1 => successful_parsers = <<"jest", "eslint">>
            /\ n >= 1 => parse_result.parser_name = "jest+eslint"
            /\ n = 0 => successful_parsers = <<"eslint">>

\* the summary before the lint line, the largest count
C13_Witness ==
    /\ LintAndSummary(MaxCount)
    /\ log_content[1] = JestAllPassedLine(MaxCount)
    /\ parse_result.parser_name = "jest+eslint"
    /\ Cardinality(DOMAIN parse_result.result) = MaxCount + 1

\* --------------------------------------------------------------- C14
\* the count the summary line l declares for the word w, 0 when it has none
VitestDeclared(l, w) ==
    IF \E i \in 1..Len(l.items) : l.items[i][2] = w
    THEN l.items[CHOOSE i \in 1..Len(l.items) : l.items[i][2] = w][1]
    ELSE 0

\* the entries of the file lines and of the lines of one test
VitestPerCase(log) == VitestIndividual(log, VitestFiles(log, Returned(EmptyMap)).map)

\* the first summary line of the log vitest was called on, 0 when it has none
VitestSummaryAt ==
    IF strategy = "vitest"
    THEN FirstIndex({i \in 1..Len(strategy_log) : VitestSummaryMatch(strategy_log[i])})
    ELSE 0

\* C14: parse_log_vitest on a log whose summary declares P passed and F
\* failed returns exactly the per-case entries when they are at least half of
\* P+F, and otherwise exactly P synthesized PASSED entries and F synthesized
\* FAILED entries, every per-case entry discarded.
C14_HalfThreshold ==
    VitestSummaryAt # 0 =>
        LET l == strategy_log[VitestSummaryAt]
            p == VitestDeclared(l, "passed")
            f == VitestDeclared(l, "failed")
            perCase == VitestPerCase(strategy_log)
        IN /\ ~strategy_out.raised
           /\ IF 2 * Cardinality(DOMAIN perCase) >= p + f
              THEN strategy_out.map = perCase
              ELSE /\ DOMAIN strategy_out.map \cap DOMAIN perCase = {}
                   /\ Cardinality(DOMAIN strategy_out.map) = p + f
                   /\ CountStatus(strategy_out.map, PASSED) = p
                   /\ CountStatus(strategy_out.map, FAILED) = f

\* --------------------------------------------------------------- C15
\* a result line the loop of parse_log_gtest reads, and the name it carries
GtestIsResult(l) == GtestOkMatch(l) \/ GtestFailedMatch(l) \/ GtestSkipMatch(l)

\* the tests started in the log gtest was called on
GtestStarts ==
    IF strategy = "gtest"
    THEN {i \in 1..Len(strategy_log) : GtestRunMatch(strategy_log[i])}
    ELSE {}

GtestWord(l) ==
    IF GtestOkMatch(l) THEN PASSED ELSE IF GtestFailedMatch(l) THEN FAILED ELSE SKIPPED

RECURSIVE GtestByStart(_, _, _)
GtestByStart(log, m, started) ==
    IF log = <<>> THEN m
    ELSE LET l == Head(log)
         IN IF GtestRunMatch(l) THEN GtestByStart(Tail(log), m, l.id)
            ELSE IF GtestIsResult(l) /\ started # NoTest
                 THEN GtestByStart(Tail(log), Put(m, started, GtestWord(l)), started)
            ELSE GtestByStart(Tail(log), m, started)

\* the log gtest was called on has result lines of tests and no summary line
GtestResultsOnly ==
    /\ strategy = "gtest"
    /\ \E i \in 1..Len(strategy_log) : GtestIsResult(strategy_log[i])
    /\ \A i \in 1..Len(strategy_log) : strategy_log[i].k \notin {"gtotal", "gcount"}

GtestLastResult(id) ==
    LastIndex({j \in 1..Len(strategy_log) :
                 GtestIsResult(strategy_log[j]) /\ strategy_log[j].id = id})

StylelintRecognized == strategy = "stylelint" /\ LogHasLower(strategy_log, "stylelint")

\* the log holds output of eslint, its counts written with digits int() reads
EslintRecognized ==
    /\ strategy = "eslint"
    /\ \/ \E i \in 1..Len(strategy_log) : EslintMatch(strategy_log[i])
       \/ LogHas(strategy_log, "npm info ok")
       \/ LogHas(strategy_log, "exit 0")
    /\ \A i \in 1..Len(strategy_log) :
          EslintMatch(strategy_log[i]) => strategy_log[i].items[2][1] >= 0

\* a summary line of eslint that reports an error is in the text
EslintFailureToken ==
    \E i \in 1..Len(strategy_log) :
        EslintMatch(strategy_log[i]) /\ strategy_log[i].items[2][1] > 0

\* C17: parse_log_stylelint and parse_log_eslint on a log in which the output
\* of the tool is recognized return exactly one entry, keyed stylelint or
\* eslint_check, FAILED if a failure token of the tool is in the text and
\* PASSED otherwise; the result never has more than one entry.
C17_BinaryGate ==
    /\ strategy \in {"stylelint", "eslint"} => Cardinality(DOMAIN strategy_out.map) <= 1
    /\ StylelintRecognized =>
         strategy_out.map =
           Put(EmptyMap, Bare("stylelint"),
               IF LogHasLower(strategy_log, "error") \/ LogHasLower(strategy_log, "failed")
               THEN FAILED ELSE PASSED)
    /\ EslintRecognized =>
         /\ ~strategy_out.raised
         /\ strategy_out.map =
              Put(EmptyMap, Bare("eslint_check"), IF EslintFailureToken THEN FAILED ELSE PASSED)

\* --------------------------------------------------------------- C18
\* the well-formed blocks of the log bazel_custom was called on
BazelWellFormed ==
    IF strategy = "bazel_custom"
    THEN {i \in 1..Len(strategy_log) : XmlOpens(strategy_log[i]) /\ strategy_log[i].sym = "ok"}
    ELSE {}

\* the log holds a block that is not well formed
BazelHasMalformed ==
    \E i \in 1..Len(strategy_log) :
        XmlOpens(strategy_log[i]) /\ strategy_log[i].sym # "ok"

\* C18: parse_log_bazel_custom on a log of XML blocks some of which are
\* malformed does not raise, and every test case of every well-formed block,
\* before or after a malformed one, is in the result.
C18_MalformedSkipped ==
    (strategy = "bazel_custom" /\ BazelHasMalformed) =>
        /\ ~strategy_out.raised
        /\ \A i \in BazelWellFormed :
              \A c \in 1..Len(strategy_log[i].items) :
                  BazelName(strategy_log[i].items[c]) \in DOMAIN strategy_out.map

\* --------------------------------------------------------------- C19
\* the last test case of the name id in the well-formed blocks of the log
BazelCasesNamed(id) ==
    {<<i, c>> \in BazelWellFormed \X (1..MaxCount) :
        c <= Len(strategy_log[i].items) /\ BazelName(strategy_log[i].items[c]) = id}

BazelLastCase(id) ==
    CHOOSE at \in BazelCasesNamed(id) :
        \A other \in BazelCasesNamed(id) :
            other[1] < at[1] \/ (other[1] = at[1] /\ other[2] <= at[2])

\* C19: on a log of well-formed blocks parse_log_bazel_custom returns one
\* entry per test case, named <classname>.<name>, FAILED when the case holds a
\* failure or an error marker, SKIPPED when it holds a skip marker, PASSED
\* only when it holds none of them.
C19_CaseStatus ==
    (strategy = "bazel_custom" /\ BazelWellFormed # {} /\ ~BazelHasMalformed) =>
        /\ DOMAIN strategy_out.map =
             {BazelName(strategy_log[i].items[c]) :
                 <<i, c>> \in {at \in BazelWellFormed \X (1..MaxCount) :
                                  at[2] <= Len(strategy_log[at[1]].items)}}
        /\ \A id \in DOMAIN strategy_out.map :
              LET at == BazelLastCase(id)
                  markers == strategy_log[at[1]].items[at[2]][3]
              IN /\ ("failure" \in markers \/ "error" \in markers)
                      => strategy_out.map[id] = FAILED
                 /\ ("skipped" \in markers /\ "failure" \notin markers /\ "error" \notin markers)
                      => strategy_out.map[id] = SKIPPED
                 /\ markers = {} => strategy_out.map[id] = PASSED

\* --------------------------------------------------------------- C20
\* the values of the map m are statuses and the three counts add up to its keys
CountsAddUp(m) ==
    /\ \A key \in DOMAIN m : m[key] \in TestStatus
    /\ CountStatus(m, PASSED) + CountStatus(m, FAILED) + CountStatus(m, SKIPPED)
         = Cardinality(DOMAIN m)

\* C20: every value of the map a strategy returns, and of the merged map, is
\* PASSED, FAILED or SKIPPED, so the passed, failed and skipped counts
\* computed from a result sum to the number of its keys.
C20_ClosedStatuses ==
    /\ CountsAddUp(strategy_out.map)
    /\ CountsAddUp(combined_results)
    /\ CountsAddUp(parser_result.result)
    /\ CountsAddUp(parse_result.result)
    /\ saved.written => CountsAddUp(saved.parsed_test_status)

\* a merged result of two strategies with the three statuses counted by main
C20_Witness ==
    /\ pc = "done"
    /\ parse_result.ok
    /\ Len(successful_parsers) = 2
    /\ CountStatus(parse_result.result, PASSED) >= 1
    /\ CountStatus(parse_result.result, FAILED) >= 1
    /\ Cardinality(DOMAIN parse_result.result) = MaxScenarioLen

\* ------------------------------------------------------------- C21
OtherCall(c) == CHOOSE d \in Calls : d # c

\* C21: under every interleaving of the calls, a call that has returned holds the
\* value parse_test_output gives for its input when it runs alone, and PARSERS
\* and LANGUAGE_FRAMEWORKS are at every moment what they were at the start.
C21_NoInterference ==
    /\ shared_parsers = PARSERS
    /\ shared_frameworks = LANGUAGE_FRAMEWORKS
    /\ \A c \in Calls :
          call_locals[c].pc = "returned" => call_locals[c].parse_result = parse_test_output(call_locals[c].in)

\* a call has returned a result while the other, on another input, is in the
\* middle of its loop with entries already merged
C21_Witness ==
    \E c \in Calls :
        /\ call_locals[c].pc = "returned"
        /\ call_locals[c].parse_result.ok
        /\ call_locals[OtherCall(c)].pc = "try"
        /\ call_locals[OtherCall(c)].in # call_locals[c].in
        /\ call_locals[OtherCall(c)].queue # <<>>
        /\ DOMAIN call_locals[OtherCall(c)].combined_results # {}

\* ------------------------------------------------------------- C22
\* the counts main takes from the result it was given
MainTotal == Cardinality(DOMAIN parse_result.result)
MainFailed == CountStatus(parse_result.result, FAILED)

\* failed / total compared with the threshold the run was given
MainRateAbove == MainFailed * failure_threshold[2] > failure_threshold[1] * MainTotal
MainRateEqual == MainFailed * failure_threshold[2] = failure_threshold[1] * MainTotal

\* the claim as stated: non-zero exactly on no result or a rate above the
\* threshold, 0 on an equal rate and on zero failures, the record saved
\* whenever there is a result
C22_Original ==
    pc = "done" =>
        /\ exit_code # 0 <=> (~parse_result.ok \/ MainRateAbove)
        /\ parse_result.ok /\ (MainRateEqual \/ MainFailed = 0) => exit_code = 0
        /\ parse_result.ok => saved = Saved(parse_result.result, parse_result.parser_name)

\* C22: main exits non-zero exactly when parse_test_output gave no result or
\* failed / total is strictly above the threshold; a rate equal to the threshold
\* exits 0, and zero failures exit 0 when the threshold is not negative; when
\* there is a result the record is written with the result and the joined names
\* whatever the exit code, unless the write raised an IOError, and then nothing
\* is written and the exit code is decided the same way.
C22_ExitAndSave ==
    pc = "done" =>
        /\ exit_code \in {0, 1}
        /\ exit_code # 0 <=> (~parse_result.ok \/ MainRateAbove)
        /\ parse_result.ok /\ MainRateEqual => exit_code = 0
        /\ parse_result.ok /\ MainFailed = 0 /\ failure_threshold[1] >= 0 => exit_code = 0
        /\ parse_result.ok /\ ~save_error =>
              saved = Saved(parse_result.result, parse_result.parser_name)
        /\ parse_result.ok /\ save_error => ~saved.written
        /\ ~parse_result.ok => ~saved.written /\ ~save_error

\* a run with failures at exactly the threshold: it exits 0 with the record saved
C22_Witness ==
    /\ pc = "done"
    /\ parse_result.ok
    /\ MainFailed > 0
    /\ MainRateEqual
    /\ exit_code = 0
    /\ saved = Saved(parse_result.result, parse_result.parser_name)

\* ------------------------------------------------------------- C23
\* the lines of the log that ctest_pattern matches
CtestTestIndexes(log) == {i \in 1..Len(log) : CtestMatch(log[i])}

\* the names listed in the section of failed tests
CtestListed(log) == {log[j].id : j \in CtestSection(log)}

\* per-test lines and an aggregate line after them
CtestReport ==
    /\ strategy = "ctest"
    /\ CtestTestIndexes(strategy_log) # {}
    /\ \E s \in 1..Len(strategy_log) :
          /\ CtestSummaryMatch(strategy_log[s])
          /\ \A i \in CtestTestIndexes(strategy_log) : i < s

\* C23: parse_log_ctest on per-test lines followed by an aggregate line returns
\* one entry per distinct name of a per-test line or of the section "The
\* following tests FAILED:"; a name listed in the section is FAILED, any other
\* name has the status its line states (the last of its lines when it has
\* several); no entry is made up from the aggregate line.
C23_PerTest ==
    CtestReport =>
        LET log == strategy_log
            m == strategy_out.map
            named == {log[i].id : i \in CtestTestIndexes(log)}
        IN /\ ~strategy_out.raised
           /\ DOMAIN m = named \cup CtestListed(log)
           /\ \A id \in DOMAIN m : id[2] = FALSE
           /\ \A id \in CtestListed(log) : m[id] = "FAILED"
           /\ \A id \in named \ CtestListed(log) :
                 LET last == LastIndex({i \in CtestTestIndexes(log) : log[i].id = id})
                 IN m[id] = IF log[last].sym = "Passed" THEN "PASSED" ELSE "FAILED"

\* one test passed on its line, another is only listed as failed, and the
\* aggregate declares three tests: two entries, none made up
C23_Witness ==
    /\ CtestReport
    /\ strategy_log = <<CtestLine(Bare("testA"), "Passed"), CtestAggregate,
                        CtestHeader, CtestItemLine(Bare("testB"))>>
    /\ strategy_out.map = Put(Put(EmptyMap, Bare("testA"), "PASSED"), Bare("testB"), "FAILED")

\* ------------------------------------------------------------- C24
\* the aggregate line of a log that holds nothing else the parsers read
AggregateLine == strategy_log[Len(strategy_log)]

CatchSummaryOnly ==
    /\ strategy = "catch2"
    /\ strategy_log \in AggregateLogs
    /\ CatchSummaryMatch(AggregateLine)
CatchAllPassedOnly ==
    /\ strategy = "catch2"
    /\ strategy_log \in AggregateLogs
    /\ CatchAllPassedMatch(AggregateLine)
CppOkOnly ==
    /\ strategy = "cppunit"
    /\ strategy_log \in AggregateLogs
    /\ CppOkMatch(AggregateLine)

\* the entries made up for p passed and f failed tests, and nothing else
MadeUp(m, p, f) ==
    /\ DOMAIN m = {Numbered("test_passed_", i) : i \in 1..p}
                  \cup {Numbered("test_failed_", i) : i \in 1..f}
    /\ \A i \in 1..p : m[Numbered("test_passed_", i)] = PASSED
    /\ \A i \in 1..f : m[Numbered("test_failed_", i)] = FAILED

CatchResultInElement(log, open) ==
    LET ends == {j \in (open + 1)..Len(log) : log[j].k \in {"tcclose", "tcopen"}}
        close == IF ends = {} THEN Len(log) + 1 ELSE FirstIndex(ends)
    IN FirstIndex({j \in (open + 1)..(close - 1) : CatchResultMatch(log[j])})

\* the elements of the log that hold a result
CatchJudged(log) ==
    {i \in 1..Len(log) : CatchOpenMatch(log[i]) /\ CatchResultInElement(log, i) # 0}

\* C25: on XML output every TestCase element that holds an OverallResult gives
\* the entry of its name, with the status of the result inside that element (of
\* the last such element when a name is repeated), and an element without a
\* result gives nothing: it takes no status from a later element and hides none.
C25_OwnResult ==
    strategy = "catch2" /\ strategy_log \in CatchXmlLogs(MaxReportTests) =>
        LET log == strategy_log
            m == strategy_out.map
        IN /\ ~strategy_out.raised
           /\ DOMAIN m = {log[i].id : i \in CatchJudged(log)}
           /\ \A id \in DOMAIN m :
                 LET last == LastIndex({i \in CatchJudged(log) : log[i].id = id})
                 IN m[id] = CatchStatus(log[CatchResultInElement(log, last)].sym)

\* ------------------------------------------------------------- C26
\* the logs with the lines of log in another order
Reordered(log) ==
    {[i \in 1..Len(log) |-> log[f[i]]] : f \in Permutations(1..Len(log))}

\* a name stands on two lines with different markers
JestMarkersDiffer(log) ==
    \E i, j \in 1..Len(log) : log[i].id = log[j].id /\ log[i].sym # log[j].sym

JestCheckOnly == strategy = "jest" /\ strategy_log \in JestCheckLogs

GtestPerTest ==
    {i \in 1..Len(strategy_log) : strategy_log[i].k = "gres" /\ GtestIsResult(strategy_log[i])}
GtestSummaryLines ==
    {i \in 1..Len(strategy_log) : strategy_log[i].k \in {"gcount", "gtotal"}}

\* the number a summary line with the word declares, 0 without such a line
GtestDeclared(word) ==
    LET s == FirstIndex({i \in 1..Len(strategy_log) :
                           strategy_log[i].k = "gcount" /\ strategy_log[i].sym = word})
    IN IF s = 0 THEN 0 ELSE strategy_log[s].items[1][1]

\* C27: no summary line of a gtest log makes an entry: with result lines of
\* tests the keys are names taken from them and the FAILED entries are the
\* distinct tests with a FAILED line; the made-up entries, P passed and F
\* failed, are produced exactly when the log has summary lines and no result
\* line of a test.
C27_SummaryLines ==
    strategy = "gtest" /\ ~strategy_out.raised =>
        LET log == strategy_log
            m == strategy_out.map
            madeUp == {Numbered("test_passed_", i) : i \in 1..GtestDeclared("PASSED")}
                      \cup {Numbered("test_failed_", i) : i \in 1..GtestDeclared("FAILED")}
        IN /\ GtestPerTest # {} =>
                 /\ DOMAIN m \subseteq {log[i].id : i \in GtestPerTest}
                 /\ CountStatus(m, FAILED)
                       = Cardinality({log[i].id : i \in {j \in GtestPerTest : GtestFailedMatch(log[j])}})
           /\ GtestPerTest = {} /\ GtestSummaryLines # {} => DOMAIN m = madeUp
           /\ GtestPerTest = {} /\ GtestSummaryLines = {} => DOMAIN m = {}

\* ------------------------------------------------------------- C28
\* the summaries of classes in the log: the "Tests run" lines but the last
ClassSummaries ==
    {i \in 1..(Len(strategy_log) - 1) : TestsRunMatch(strategy_log[i])}

\* the entries of a class declared by the summary at line i, after "Running C"
DeclaredEntries(i) ==
    LET cls == strategy_log[i - 1].id[1]
        it == strategy_log[i].items
    IN ClassEntries(EmptyMap, cls, it[1][1], it[2][1], it[3][1], it[4][1])

\* C28: on "Running C" lines each followed by the summary of C and a last
\* summary of the build that names no class, parse_log_maven and parse_log_junit
\* give for each class its N entries C.test_1 .. C.test_N, F + E of them FAILED,
\* S SKIPPED and the others PASSED, and no other entry: as many entries as the
\* classes declare together.
C28_PerClass ==
    strategy \in {"maven", "junit"} /\ strategy_log \in BuildReports =>
        LET m == strategy_out.map
        IN /\ ~strategy_out.raised
           /\ \A i \in ClassSummaries :
                 /\ DOMAIN DeclaredEntries(i) \subseteq DOMAIN m
                 /\ \A key \in DOMAIN DeclaredEntries(i) : m[key] = DeclaredEntries(i)[key]
                 /\ CountStatus(DeclaredEntries(i), FAILED)
                       = strategy_log[i].items[2][1] + strategy_log[i].items[3][1]
                 /\ CountStatus(DeclaredEntries(i), SKIPPED) = strategy_log[i].items[4][1]
                 /\ Cardinality(DOMAIN DeclaredEntries(i)) = strategy_log[i].items[1][1]
           /\ DOMAIN m = UNION {DOMAIN DeclaredEntries(i) : i \in ClassSummaries}
           /\ Cardinality(DOMAIN m) = strategy_log[Len(strategy_log)].items[1][1]

\* ------------------------------------------------------------- C29
\* the parser of the name at the head of the queue raises, or the name is not
\* registered
HeadRaises ==
    /\ Head(queue) \in Registered
    /\ ParserFunc(Head(queue), log_content).raised
HeadUnregistered == Head(queue) \notin Registered

\* the names of a list whose parsers return entries on the log, in order
Contributors(names, log) ==
    LET HasEntries(n) == n \in Registered /\ ~ParserFunc(n, log).raised
                    /\ DOMAIN ParserFunc(n, log).map # {}
    IN SelectSeq(names, HasEntries)

RECURSIVE MergedOf(_, _)
MergedOf(names, log) ==
    IF names = <<>> THEN EmptyMap
    ELSE Update(MergedOf(SubSeq(names, 1, Len(names) - 1), log),
                ParserFunc(names[Len(names)], log).map)

\* a turn of the loop on a name whose parser raises or that is not registered
SkippedTurn ==
    pc = "try" /\ queue # <<>> /\ (HeadRaises \/ HeadUnregistered) =>
        /\ combined_results' = combined_results
        /\ successful_parsers' = successful_parsers
        /\ queue' = Tail(queue)
        /\ pc' = "try"

\* what a call of try_parsers by itself has returned
DirectResult ==
    pc = "tried" /\ phase = "direct" =>
        LET given == Contributors(parser_names, log_content)
            IsRegistered(n) == n \in Registered
        IN /\ parser_result = IF given = <<>> THEN None
                              ELSE Some(MergedOf(given, log_content), JoinPlus(given))
           /\ InvokedNames = SelectSeq(parser_names, IsRegistered)
           /\ successful_parsers = given

\* C29: a turn of the loop of try_parsers on a name whose parser raises, or on
\* a name that is not registered, leaves the entries and the names gathered so
\* far as they are and goes on with the next candidate; what the call returns
\* is made of the parsers that did not raise: the entries of the registered
\* names whose parsers returned some, merged in the order of the list, under
\* their names; every registered name of the list has been invoked, in order,
\* the raising ones included, and the call returns in every case.
C29_Isolated == []DirectResult /\ [][SkippedTurn]_vars

\* eslint gave an entry, jest raised, the unregistered name was skipped: the
\* call returns the entry of eslint under its name alone
C29_Witness ==
    /\ pc = "tried"
    /\ phase = "direct"
    /\ parser_names = <<"eslint", "jest", "nosuch">>
    /\ ParserFunc("jest", log_content).raised
    /\ parser_result.ok
    /\ parser_result.parser_name = "eslint"
    /\ InvokedNames = <<"eslint", "jest">>

\* ------------------------------------------------------------- C30
\* the stage that runs, 0 when none does
RunningStage == IF pipeline_pc = "stage" THEN Len(stage_runs) + 1 ELSE 0

\* C30: the stages run in the order 1, 2, 3; a stage is started only when the
\* stage before it has returned code 0, so a stage that fails or runs out of
\* time is the last one run and the later ones keep their flag unsuccessful;
\* a profile is generated only when the three stages succeeded.
C30_Order ==
    /\ Len(stage_runs) <= 3
    /\ \A i \in 1..Len(stage_runs) : stage_runs[i][1] = i
    /\ \A i \in 1..(Len(stage_runs) - 1) : stage_runs[i][2] = 0
    /\ RunningStage # 0 =>
          /\ RunningStage \in Stages
          /\ \A i \in 1..Len(stage_runs) : stage_runs[i][2] = 0
          /\ stage_cmd = StageCmd(RunningStage, pipeline_args)
    /\ \A n \in Stages :
          pipeline_results[n] <=> (n <= Len(stage_runs) /\ stage_runs[n][2] = 0)
    /\ pipeline_pc \in {"returned", "done"} =>
          Len(stage_runs) = 3 \/ stage_runs[Len(stage_runs)][2] # 0
    /\ profile_code = "profile" =>
          /\ Len(stage_runs) = 3
          /\ \A n \in Stages : stage_runs[n][2] = 0 /\ pipeline_results[n]

\* a run where stage 2 ran out of time: stage 3 was not run, no profile
C30_Witness ==
    /\ pipeline_pc = "done"
    /\ stage_runs = <<<<1, 0>>, <<2, -1>>>>
    /\ pipeline_results = [n \in Stages |-> n = 1]
    /\ profile_code = "None"

====
